---- MODULE Spec2Model ----
(***************************************************************************)
(* Model of the nutrition request handlers of AmirA8343/Project2004:       *)
(*   src/api/new.ts, src/api/test.ts, src/api/chat.ts, src/unnamed/part_002 *)
(* One behaviour is one HTTP request handled by one of the four handlers.  *)
(* Every await of an LLM call is a step boundary: an action consumes the   *)
(* reply of the call in flight, runs the handler's code up to the next     *)
(* await (or to the response) and issues the next call.                    *)
(*                                                                         *)
(* Representation of JavaScript values:                                    *)
(*  - a string is a sequence of words (Text), the words separated by one   *)
(*    space; the word " " stands for white space at the ends of a string;  *)
(*    "" is <<>>; a missing, null or empty string field is <<>> (all three *)
(*    are falsy and the handlers only test such a field for truthiness);   *)
(*  - a number is an integer count of tenths (12.5 is 125);                *)
(*  - a JSON field value is a Raw record [t, n]; t tells what the model    *)
(*    put there: "undef" (absent), "null", "num", "numstr" (a numeric      *)
(*    string), "badstr" (a non-numeric string);                            *)
(*  - the text of an LLM message is represented by what the two regular    *)
(*    expressions of extractJson find in it and what JSON.parse makes of   *)
(*    each match.                                                          *)
(***************************************************************************)
EXTENDS Integers, Sequences, FiniteSets, TLC

VARIABLES
    variant,      \* which handler serves the request
    method,       \* req.method
    hasKey,       \* OPENAI_API_KEY is set
    description,  \* req.body.description (default "")
    photoUrl,     \* req.body.photoUrl: "none", "https" (acceptable), "bad"
    token,        \* the Authorization header: "none" or "bearer"
    payload,      \* req.body of the analysis handlers
    pc,           \* the await the handler is suspended at; "done"; "crashed"
    calls,        \* the outbound calls issued so far, in order
    outcome,      \* per outbound call: what came back
    stage0,       \* the classification (Stage 0)
    stage1,       \* Stage 1's { foods, summary }
    stage2Prompt, \* the food list and total weight sent to Stage 2
    nutrition,    \* Stage 2's nutrition record, kept across Stage 3
    resp,         \* the response sent (status 0: none yet)
    nResp,        \* how many times res.status(..).json(..) ran
    healthRecord, \* the day's health record as loadHealthRecord returned it
    vision,       \* what runVision...Analysis returned
    result,       \* the analysis the handler computed
    stored,       \* the analysis document written to the store
    analysis,     \* the last call of a build...Analysis function
    previous,     \* the call before it
    applied,      \* the last application of a helper function
    requests,     \* two requests of one user for one day, each at its step
    dayDocument,  \* users/{uid}/aiAnalysis/{dateKey} as the store holds it
    writes        \* the writes the store applied to it, in order

vars == <<variant, method, hasKey, description, photoUrl, token, payload, pc,
          calls, outcome, stage0, stage1, stage2Prompt, nutrition, resp, nResp,
          healthRecord, vision, result, stored, analysis, previous, applied,
          requests, dayDocument, writes>>

(***************************************************************************)
(* Bounds of the model.                                                    *)
(***************************************************************************)
\* the most foods Stage 1's reply lists
MaxFoods == 2

(***************************************************************************)
(* Numbers.                                                                *)
(***************************************************************************)
\* a JavaScript number: finite with value n tenths, or NaN/Infinity
Fin(n) == [fin |-> TRUE, n |-> n]
NaN == [fin |-> FALSE, n |-> 0]

Undef == [t |-> "undef", n |-> 0]
JsNull == [t |-> "null", n |-> 0]
Num(n) == [t |-> "num", n |-> n]
NumStr(n) == [t |-> "numstr", n |-> n]
BadStr == [t |-> "badstr", n |-> 0]

\* unary plus: +undefined is NaN, +null is 0, +"12" is 12, +"n/a" is NaN
ToNumeric(v) ==
    CASE v.t = "num" -> Fin(v.n)
      [] v.t = "numstr" -> Fin(v.n)
      [] v.t = "null" -> Fin(0)
      [] OTHER -> NaN

\* Math.round on tenths: floor(x + 0.5)
MathRound(n) == ((n + 5) \div 10) * 10

\* a * b on tenths (NaN if either is)
Times(a, b) ==
    IF a.fin /\ b.fin THEN Fin((a.n * b.n) \div 10) ELSE NaN

\* the value a response field holds: a number, or JSON null
OutNum(n) == [t |-> "num", n |-> n]
OutNull == [t |-> "null", n |-> 0]

\* test.ts, chat.ts, part_002: (v) => Number.isFinite(+v) ? Math.round(+v) : 0
safeNum(v) ==
    IF ToNumeric(v).fin THEN OutNum(MathRound(ToNumeric(v).n)) ELSE OutNum(0)

\* new.ts: (v) => Number.isFinite(+v) ? +v : null
toNumber(v) ==
    IF ToNumeric(v).fin THEN OutNum(ToNumeric(v).n) ELSE OutNull

\* the conversions applied to an already computed number (the pizza totals)
safeNumOfNumber(x) == IF x.fin THEN OutNum(MathRound(x.n)) ELSE OutNum(0)
toNumberOfNumber(x) == IF x.fin THEN OutNum(x.n) ELSE OutNull

\* new.ts roundForUI, applied to a value toNumber produced (+null is 0)
roundForUI(o) == IF o.t = "num" THEN OutNum(MathRound(o.n)) ELSE OutNum(0)

(***************************************************************************)
(* The nutrition record.                                                   *)
(***************************************************************************)
NutritionFields ==
    {"protein", "calories", "carbs", "fat", "vitaminA", "vitaminC", "vitaminD",
     "vitaminE", "vitaminK", "vitaminB12", "iron", "calcium", "magnesium",
     "zinc", "water", "sodium", "potassium", "chloride", "fiber"}

MacroFields == {"calories", "protein", "carbs", "fat"}

\* the fields of a model reply that buildCompleteNutrition reads
SourceFields == NutritionFields \cup {"carbohydrates"}

\* d.carbs ?? d.carbohydrates
CarbsSource(d) ==
    IF d["carbs"].t \in {"undef", "null"} THEN d["carbohydrates"] ELSE d["carbs"]

FieldSource(d, f) == IF f = "carbs" THEN CarbsSource(d) ELSE d[f]

\* buildCompleteNutrition of test.ts, chat.ts, part_002 (and part_000)
buildCompleteNutritionSafe(d) ==
    [f \in NutritionFields |-> safeNum(FieldSource(d, f))]

\* buildCompleteNutrition of new.ts
buildCompleteNutritionNew(d) ==
    [f \in NutritionFields |-> toNumber(FieldSource(d, f))]

\* new.ts: the four macros go through roundForUI, the rest is copied
RoundedForUI(nut) ==
    [f \in NutritionFields |->
        IF f \in MacroFields THEN roundForUI(nut[f]) ELSE nut[f]]

(***************************************************************************)
(* Text.                                                                   *)
(***************************************************************************)
\* String.prototype.toLowerCase, word by word
LowerWord(w) ==
    CASE w = "Pizza" -> "pizza"
      [] w = "Chicken" -> "chicken"
      [] OTHER -> w

ToLowerCase(text) == [i \in DOMAIN text |-> LowerWord(text[i])]

\* text.includes(w), for a needle that is one word
Includes(text, w) == \E i \in DOMAIN text : text[i] = w

\* a word of white space only
IsBlank(w) == w = " "

\* String.prototype.trim
RECURSIVE TrimStart(_)
TrimStart(text) ==
    IF text # <<>> /\ IsBlank(Head(text)) THEN TrimStart(Tail(text)) ELSE text

RECURSIVE TrimEnd(_)
TrimEnd(text) ==
    IF text # <<>> /\ IsBlank(text[Len(text)])
    THEN TrimEnd(SubSeq(text, 1, Len(text) - 1))
    ELSE text

Trim(text) == TrimEnd(TrimStart(text))

\* foods.map(f => f.name).join(" ")
RECURSIVE JoinNames(_)
JoinNames(foods) ==
    IF foods = <<>> THEN <<>>
    ELSE Head(foods).name \o JoinNames(Tail(foods))

(***************************************************************************)
(* JSON objects and message texts.                                         *)
(***************************************************************************)
NoNutrition == [f \in SourceFields |-> Undef]

\* an object with none of the fields a handler reads
EmptyObj ==
    [kind |-> "", normalized_name |-> <<>>, quantity_description |-> <<>>,
     hasFoods |-> FALSE, foods |-> <<>>, summary |-> <<>>,
     nut |-> NoNutrition, ai_summary |-> <<>>,
     hasAiFoods |-> FALSE, ai_foods |-> <<>>,
     type |-> <<>>, slices |-> Undef, weight_per_slice_g |-> Undef,
     calories_per_slice |-> Undef, protein_per_slice |-> Undef,
     carbs_per_slice |-> Undef, fat_per_slice |-> Undef]

\* what JSON.parse returned: null, a falsy value that is not null (0, "",
\* false), or a truthy value; a truthy value that is not an object (5, "x")
\* reads as an object without fields
JNull == [j |-> "null", v |-> EmptyObj]
JFalsy == [j |-> "falsy", v |-> EmptyObj]
JObj(o) == [j |-> "obj", v |-> o]

Truthy(jv) == jv.j = "obj"
Nullish(jv) == jv.j = "null"

\* what one regular expression of extractJson found, and what JSON.parse made
\* of it: no match (or an empty capture), a match that does not parse, a
\* match that parses to val
NoMatch == [m |-> "none", val |-> JNull]
BadMatch == [m |-> "bad", val |-> JNull]
JsonMatch(jv) == [m |-> "json", val |-> jv]

\* message texts
EmptyContent == [empty |-> TRUE, fence |-> NoMatch, raw |-> NoMatch]
Garbage == [empty |-> FALSE, fence |-> NoMatch, raw |-> NoMatch]
BrokenBraces == [empty |-> FALSE, fence |-> NoMatch, raw |-> BadMatch]
RawJson(o) == [empty |-> FALSE, fence |-> NoMatch, raw |-> JsonMatch(JObj(o))]
Fenced(jv) == [empty |-> FALSE, fence |-> JsonMatch(jv), raw |-> NoMatch]
FenceBadRawJson(o) ==
    [empty |-> FALSE, fence |-> BadMatch, raw |-> JsonMatch(JObj(o))]

\* a variant that looks at the fenced block only
extractJsonFenceOnly(text) ==
    IF text.empty THEN JNull
    ELSE IF text.fence.m = "json" THEN text.fence.val
    ELSE JNull

\* extractJson: the fenced block first, the greedy {...} second, else null
extractJson(text) ==
    IF text.empty THEN JNull
    ELSE IF text.fence.m = "json" THEN text.fence.val
    ELSE IF text.raw.m = "json" THEN text.raw.val
    ELSE JNull

(***************************************************************************)
(* Replies of the LLM API.                                                 *)
(***************************************************************************)
\* net: "throw" (fetch or resp.json() rejects), "nochoices" (a JSON body
\* without choices, as a non-2xx reply carries), "ok" (a message)
Throw == [net |-> "throw", content |-> EmptyContent, text |-> <<>>]
NoChoices == [net |-> "nochoices", content |-> EmptyContent, text |-> <<>>]
Message(c) == [net |-> "ok", content |-> c, text |-> <<>>]
TextMessage(t) == [net |-> "ok", content |-> EmptyContent, text |-> t]

\* data.choices?.[0]?.message?.content || ""  (also ?? "")
ContentOf(reply) == IF reply.net = "ok" THEN reply.content ELSE EmptyContent

\* the LLM calls of a request
Calls == {"stage0", "bypass", "stage1", "stage15", "pizza", "stage2", "stage3"}

\* how call c ended: the transport failed ("throw"), the body held no message
\* ("nochoices"), or a message came; Stage 3's message is text, usable unless
\* it trims to ""; the others' go through extractJson, whose value Stage 1
\* tests with ?? and the rest with || or !
OutcomeOf(c, reply) ==
    CASE reply.net = "throw" -> "throw"
      [] reply.net = "nochoices" -> "nochoices"
      [] c = "stage3" ->
            IF Trim(reply.text) # <<>> THEN "parsed" ELSE "unparsable"
      [] c = "stage1" ->
            IF Nullish(extractJson(reply.content)) THEN "unparsable"
            ELSE "parsed"
      [] OTHER ->
            IF Truthy(extractJson(reply.content)) THEN "parsed"
            ELSE "unparsable"

\* a call made without an API key is answered 401: no message comes back
Answers(replies) ==
    IF hasKey THEN replies ELSE {r \in replies : r.net # "ok"}

(***************************************************************************)
(* The requests and the replies the model draws.                           *)
(***************************************************************************)
Variants == {"new", "test", "chat", "part_002"}

Descriptions == {<<>>, <<"2", "eggs">>, <<"chicken", "rice", "Pizza">>}

PhotoUrls == {"none", "https", "bad"}

Food(name, w, c, state, meth) ==
    [name |-> name, weight_g |-> w, confidence |-> c,
     cook_state |-> state, cook_method |-> meth]

FoodChicken == Food(<<"Chicken">>, Num(1500), Num(8), "cooked", "grilled")
FoodEggs == Food(<<"eggs">>, Undef, Undef, "raw", "")
FoodPizza == Food(<<"pizza">>, Num(2405), Num(9), "cooked", "baked")

FoodRice == Food(<<"rice">>, NumStr(1500), Undef, "raw", "")

\* an item of an estimate's ai_foods that carries no weight
FoodShake == Food(<<"shake">>, Undef, Num(7), "", "")

\* a food Stage 1 describes as bone-in
FoodThigh == Food(<<"bone-in", "chicken", "thigh">>, Num(2000), Num(8), "cooked", "grilled")

FoodItems == {FoodChicken, FoodEggs, FoodPizza, FoodRice, FoodThigh}

FoodLists == UNION {[1..n -> FoodItems] : n \in 0..MaxFoods}

Summaries == {<<>>, <<"330", "ml", "shake">>}

\* Stage 0
Cls(kind, nn, qd) ==
    [EmptyObj EXCEPT !.kind = kind, !.normalized_name = nn,
                     !.quantity_description = qd]

Stage0Objs ==
    {Cls("branded", <<"Muscle", "Milk">>, <<"330", "ml">>),
     Cls("single_food", <<"eggs">>, <<"2">>),
     Cls("single_food", <<>>, <<>>),
     Cls("mixed_meal", <<"chicken", "rice">>, <<>>),
     EmptyObj}

Unparsables ==
    {Message(EmptyContent), Message(Garbage), Message(BrokenBraces),
     Message(Fenced(JNull))}

Stage0Replies ==
    {Throw, NoChoices, Message(Fenced(JFalsy))} \cup Unparsables
    \cup {Message(RawJson(o)) : o \in Stage0Objs}
    \cup {Message(FenceBadRawJson(Cls("single_food", <<"eggs">>, <<"2">>)))}

\* Stage 1
Identified(foods, summary) ==
    [EmptyObj EXCEPT !.hasFoods = TRUE, !.foods = foods, !.summary = summary]

Stage1Objs ==
    {Identified(fs, s) : fs \in FoodLists, s \in Summaries}
    \cup {[EmptyObj EXCEPT !.summary = s] : s \in Summaries}

Stage1Replies ==
    {Throw, NoChoices, Message(Fenced(JFalsy))} \cup Unparsables
    \cup {Message(RawJson(o)) : o \in Stage1Objs}
    \cup {Message(Fenced(JObj(Identified(<<FoodEggs>>, <<>>))))}

\* the bypass call, Stage 1.5 and Stage 2
NutFull ==
    [f \in SourceFields |->
        CASE f = "calories" -> Num(1555)
          [] f = "carbohydrates" -> Undef
          [] OTHER -> Num(12)]

NutSparse ==
    [f \in SourceFields |->
        CASE f = "calories" -> NumStr(5000)
          [] f = "protein" -> BadStr
          [] f = "carbohydrates" -> Num(304)
          [] f = "vitaminA" -> JsNull
          [] OTHER -> Undef]

Estimated(nut, sum, hasList, list) ==
    [EmptyObj EXCEPT !.nut = nut, !.ai_summary = sum,
                     !.hasAiFoods = hasList, !.ai_foods = list]

NutritionObjs ==
    {Estimated(NutFull, <<"Two", "eggs">>, TRUE, <<FoodEggs, FoodShake>>),
     Estimated(NutSparse, <<>>, FALSE, <<>>),
     EmptyObj}

NutritionReplies ==
    {Throw, NoChoices, Message(Fenced(JFalsy))} \cup Unparsables
    \cup {Message(RawJson(o)) : o \in NutritionObjs}

\* the pizza call
PizzaFull ==
    [EmptyObj EXCEPT !.type = <<"pepperoni", "pizza">>, !.slices = Num(20),
                     !.weight_per_slice_g = Num(1200),
                     !.calories_per_slice = Num(2855),
                     !.protein_per_slice = Num(120),
                     !.carbs_per_slice = NumStr(300),
                     !.fat_per_slice = Num(100),
                     !.summary = <<"Two", "slices">>]

PizzaPartial ==
    [EmptyObj EXCEPT !.type = <<"pizza">>, !.calories_per_slice = Num(2855)]

PizzaReplies ==
    {Throw, NoChoices} \cup Unparsables
    \cup {Message(RawJson(PizzaFull)), Message(RawJson(PizzaPartial))}

\* Stage 3
Stage3Replies ==
    {Throw, NoChoices, TextMessage(<<>>), TextMessage(<<" ">>),
     TextMessage(<<" ", "Grilled", "chicken", " ">>)}

(***************************************************************************)
(* Helpers of the handlers.                                                *)
(***************************************************************************)
\* a || b on strings
OrText(a, b) == IF a # <<>> THEN a ELSE b

\* the decimal text of a number of tenths (150 is "15", 2405 is "240.5")
NumWord(n) ==
    IF n % 10 = 0 THEN ToString(n \div 10)
    ELSE ToString(n \div 10) \o "." \o ToString(n % 10)

\* Number.prototype.toFixed(1)
Fixed1(n) == ToString(n \div 10) \o "." \o ToString(n % 10)

\* `${x}` of a response number (null prints "null")
OutWord(o) == IF o.t = "num" THEN NumWord(o.n) ELSE "null"

\* the words that read as a number, and their value in tenths
IsNumericWord(w) == w \in {"2", "330"}
WordValue(w) == IF w = "2" THEN 20 ELSE 3300

\* Number(text): "" is 0, one numeric word is its value, anything else NaN
NumberOfText(text) ==
    IF text = <<>> THEN Fin(0)
    ELSE IF Len(text) = 1 /\ IsNumericWord(text[1]) THEN Fin(WordValue(text[1]))
    ELSE NaN

\* Number(x) || null
NumberOrNull(text) ==
    IF NumberOfText(text).fin /\ NumberOfText(text).n # 0
    THEN OutNum(NumberOfText(text).n)
    ELSE OutNull

\* new.ts normalizeQuantity, of a number or null
normalizeQuantity(q) ==
    IF q.t = "num" THEN OutNum(IF MathRound(q.n) > 10 THEN MathRound(q.n) ELSE 10)
    ELSE IF q.t = "null" THEN OutNum(10)
    ELSE OutNull

\* new.ts normalizeQuantity, of a string
normalizeQuantityOfText(text) ==
    IF NumberOfText(text).fin
    THEN OutNum(IF MathRound(NumberOfText(text).n) > 10
                THEN MathRound(NumberOfText(text).n) ELSE 10)
    ELSE OutNull

\* the unit that the unit alternation of extractQuantityFromText matches at
\* the start of a word ("" if none), for the words of the model
UnitAtStart(w) ==
    CASE w = "ml" -> "ml"
      [] w = "slices" -> "slices"
      [] OTHER -> ""

\* extractQuantityFromText: the first number that a unit follows
RECURSIVE extractQuantityFromText(_)
extractQuantityFromText(text) ==
    IF Len(text) < 2 THEN <<>>
    ELSE IF IsNumericWord(text[1]) /\ UnitAtStart(text[2]) # ""
    THEN <<text[1], UnitAtStart(text[2])>>
    ELSE extractQuantityFromText(Tail(text))

\* new.ts COUNT_BASED_FOODS.some(k => name.includes(k)), for a lower-case name
CountBasedWord(w) ==
    w \in {"egg", "eggs", "banana", "apple", "orange", "slice", "slices"}

IsCountBased(lowerName) == \E i \in DOMAIN lowerName : CountBasedWord(lowerName[i])

\* a truthy JSON field value
TruthyRaw(v) == \/ v.t \in {"numstr", "badstr"}
                \/ v.t = "num" /\ v.n # 0

\* Number.isFinite(x), which does not coerce
IsFiniteNumber(v) == v.t = "num"

(***************************************************************************)
(* ai_foods.                                                               *)
(***************************************************************************)
\* an item of ai_foods; unit "" and a field Undef are absent fields
OutFood(name, w, unit, q, c) ==
    [name |-> name, weight_g |-> w, unit |-> unit, quantity |-> q,
     confidence |-> c]

\* an item of the model's reply handed on as it is
AsReturned(f) == OutFood(f.name, f.weight_g, "", Undef, f.confidence)

AllAsReturned(foods) == [i \in DOMAIN foods |-> AsReturned(foods[i])]

\* new.ts normalizeAiFoods(foods, fallbackName, quantity)
normalizeAiFoodsNew(has, foods, fallbackName, quantity) ==
    IF ~has \/ foods = <<>>
    THEN <<OutFood(fallbackName, OutNull, "piece", quantity, OutNum(10))>>
    ELSE [i \in DOMAIN foods |->
            LET f == foods[i]
                isCountBased ==
                    IsCountBased(ToLowerCase(OrText(f.name, fallbackName)))
            IN OutFood(OrText(f.name, fallbackName),
                       IF isCountBased THEN OutNull ELSE toNumber(f.weight_g),
                       IF isCountBased THEN "piece" ELSE "gram",
                       IF isCountBased THEN normalizeQuantity(quantity)
                       ELSE OutNull,
                       IF IsFiniteNumber(f.confidence) THEN f.confidence
                       ELSE OutNum(10))]

\* part_002 normalizeAiFoods(foods, fallbackName)
normalizeAiFoods002(has, foods, fallbackName) ==
    IF ~has \/ foods = <<>>
    THEN <<OutFood(fallbackName, OutNull, "", Undef, OutNum(10))>>
    ELSE [i \in DOMAIN foods |->
            LET f == foods[i]
            IN OutFood(OrText(f.name, fallbackName),
                       IF IsFiniteNumber(f.weight_g)
                       THEN OutNum(MathRound(f.weight_g.n)) ELSE OutNull,
                       "", Undef,
                       IF IsFiniteNumber(f.confidence) THEN f.confidence
                       ELSE OutNum(10))]

\* new.ts normalizeChickenName
normalizeChickenName(food) ==
    IF food.name = <<>> THEN food
    ELSE IF /\ Includes(ToLowerCase(food.name), "chicken")
            /\ ~Includes(ToLowerCase(food.name), "breast")
    THEN [food EXCEPT
            !.name = <<"chicken", "breast">>,
            !.confidence =
                CASE food.confidence.t \in {"undef", "null"} -> Num(9)
                  [] food.confidence.t = "num" ->
                        Num(IF food.confidence.n + 1 < 10
                            THEN food.confidence.n + 1 ELSE 10)
                  [] OTHER -> JsNull]
    ELSE food

(***************************************************************************)
(* The Stage 2 prompt.                                                     *)
(***************************************************************************)
\* items.join(", ")
RECURSIVE JoinComma(_)
JoinComma(items) ==
    IF items = <<>> THEN <<>>
    ELSE IF Len(items) = 1 THEN Head(items)
    ELSE Head(items) \o <<",">> \o JoinComma(Tail(items))

\* a variant that leaves the weight of an unknown method as it is
CookingYieldKnownOnly(meth) ==
    CASE meth = "grilled" -> 75
      [] meth = "boiled" -> 80
      [] meth = "baked" -> 78
      [] meth = "fried" -> 70
      [] meth = "" -> 75
      [] OTHER -> 100

\* new.ts COOKING_YIELD[food.cook_method || "grilled"] ?? 0.75, in percent
CookingYield(meth) ==
    CASE meth = "grilled" -> 75
      [] meth = "boiled" -> 80
      [] meth = "baked" -> 78
      [] meth = "fried" -> 70
      [] meth = "" -> 75
      [] OTHER -> 75

\* new.ts getRawEquivalentGrams: the grams are w * 100 / pct tenths
\* (k "raw": the field's value handed back as it is)
getRawEquivalentGrams(food) ==
    IF food.cook_state # "cooked"
    THEN [k |-> IF food.weight_g.t = "num" THEN "num" ELSE food.weight_g.t,
          w |-> food.weight_g.n, pct |-> 100]
    ELSE IF ToNumeric(food.weight_g).fin
    THEN [k |-> "num", w |-> ToNumeric(food.weight_g).n,
          pct |-> CookingYield(food.cook_method)]
    ELSE [k |-> "nan", w |-> 0, pct |-> 100]

\* rawG?.toFixed(1)
RawGramsWord(g) ==
    CASE g.k = "num" -> Fixed1((2 * g.w * 100 + g.pct) \div (2 * g.pct))
      [] g.k = "nan" -> "NaN"
      [] OTHER -> "undefined"

\* rawG?.toFixed(1) throws when the grams are a string
RawGramsThrows(g) == g.k \in {"numstr", "badstr"}

\* new.ts: one entry of foodList
FoodListItemNew(f, s0) ==
    IF IsCountBased(ToLowerCase(f.name))
    THEN LET q == normalizeQuantityOfText(s0.quantity_description)
         IN <<IF q.t = "num" THEN NumWord(q.n) ELSE "1">> \o f.name
    ELSE <<RawGramsWord(getRawEquivalentGrams(f)) \o "g", "raw">> \o f.name

\* test.ts, part_002: `${safeNum(f.weight_g)}g ${f.name}`
FoodListItemSafe(f) == <<OutWord(safeNum(f.weight_g)) \o "g">> \o f.name

\* chat.ts: `${f.weight_g || ""}g ${f.name}`
FoodListItemChat(f) ==
    <<(IF TruthyRaw(f.weight_g) /\ f.weight_g.t # "badstr"
       THEN NumWord(f.weight_g.n) ELSE "") \o "g">> \o f.name

NoFoodsDetected == <<"(no foods detected)">>

foodListOf(v, s0, s1, desc) ==
    LET items ==
            [i \in DOMAIN s1.foods |->
                CASE v = "new" -> FoodListItemNew(s1.foods[i], s0)
                  [] v = "chat" -> FoodListItemChat(s1.foods[i])
                  [] OTHER -> FoodListItemSafe(s1.foods[i])]
    IN IF v = "chat"
       THEN OrText(JoinComma(items), desc)
       ELSE OrText(IF s1.hasFoods /\ s1.foods # <<>> THEN JoinComma(items)
                   ELSE desc,
                   NoFoodsDetected)

\* the addends of totalWeight, each w * 100 / pct tenths
totalWeightOf(v, s1) ==
    IF v = "chat" \/ ~s1.hasFoods THEN <<>>
    ELSE [i \in DOMAIN s1.foods |->
            IF v = "new"
            THEN LET g == getRawEquivalentGrams(s1.foods[i])
                 IN IF g.k = "num" THEN [w |-> g.w, pct |-> g.pct]
                    ELSE [w |-> 0, pct |-> 100]
            ELSE [w |-> IF ToNumeric(s1.foods[i].weight_g).fin
                        THEN ToNumeric(s1.foods[i].weight_g).n ELSE 0,
                  pct |-> 100]]

\* new.ts: building foodList throws (toFixed of a string)
FoodListThrows(v, s1) ==
    /\ v = "new"
    /\ s1.hasFoods
    /\ \E i \in DOMAIN s1.foods :
          /\ ~IsCountBased(ToLowerCase(s1.foods[i].name))
          /\ RawGramsThrows(getRawEquivalentGrams(s1.foods[i]))

(***************************************************************************)
(* Responses.                                                              *)
(***************************************************************************)
AbsentNutrition == [f \in NutritionFields |-> Undef]

NoResponse ==
    [status |-> 0, via |-> "none", error |-> "", nut |-> AbsentNutrition,
     ai_summary |-> <<>>, ai_foods |-> <<>>]

\* res.status(status).json({ error })
ErrorResponse(status, via, error) ==
    [status |-> status, via |-> via, error |-> error, nut |-> AbsentNutrition,
     ai_summary |-> <<>>, ai_foods |-> <<>>]

\* res.status(200).json({ ...nut, ai_summary, ai_foods })
OkResponse(via, nut, summary, foods) ==
    [status |-> 200, via |-> via, error |-> "", nut |-> nut,
     ai_summary |-> summary, ai_foods |-> foods]

\* `Logged: ${displayName}`
Logged(displayName) ==
    IF displayName = <<>> THEN <<"Logged:", " ">> ELSE <<"Logged:">> \o displayName

\* the nutrition fields of a 200 response built from a parsed reply
NutritionOut(v, nut) ==
    IF v = "new" THEN RoundedForUI(buildCompleteNutritionNew(nut))
    ELSE buildCompleteNutritionSafe(nut)

\* the bypass branch: displayName
BypassDisplayName(v, s0, desc) ==
    LET d == OrText(s0.quantity_description, OrText(s0.normalized_name, desc))
    IN IF v = "test" THEN d ELSE OrText(d, <<"Food">>)

\* the bypass branch: responseBody
BypassResponse(v, s0, desc, p) ==
    LET displayName == BypassDisplayName(v, s0, desc)
    IN OkResponse("bypass", NutritionOut(v, p.nut),
          OrText(p.ai_summary,
                 IF v = "test" THEN Logged(displayName)
                 ELSE Trim(Logged(displayName))),
          CASE v = "new" ->
                  normalizeAiFoodsNew(p.hasAiFoods, p.ai_foods,
                      s0.normalized_name,
                      NumberOrNull(s0.quantity_description))
            [] v = "part_002" ->
                  normalizeAiFoods002(p.hasAiFoods, p.ai_foods, displayName)
            [] OTHER ->
                  IF p.hasAiFoods THEN AllAsReturned(p.ai_foods)
                  ELSE <<OutFood(displayName, OutNull, "", Undef, OutNum(10))>>)

\* Stage 1.5: qtyLabel
qtyLabelOf(v, s1, desc) ==
    LET onlyFood == s1.foods[1]
        quantityFromText ==
            OrText(extractQuantityFromText(s1.summary),
                   OrText(extractQuantityFromText(onlyFood.name),
                          extractQuantityFromText(desc)))
        grams ==
            IF v = "new" THEN OutWord(toNumber(onlyFood.weight_g))
            ELSE OutWord(safeNum(onlyFood.weight_g))
        prefix ==
            IF quantityFromText # <<>> THEN quantityFromText
            ELSE IF TruthyRaw(onlyFood.weight_g) THEN <<grams, "g">>
            ELSE <<>>
    IN OrText(Trim(prefix \o onlyFood.name), <<"1", "serving">>)

\* Stage 1.5: responseBody
ShortcutResponse(v, s1, desc, p) ==
    LET onlyFood == s1.foods[1]
        displayName == qtyLabelOf(v, s1, desc)
        weight ==
            IF v = "new"
            THEN roundForUI(toNumber(onlyFood.weight_g))
            ELSE IF safeNum(onlyFood.weight_g).n # 0
                 THEN safeNum(onlyFood.weight_g) ELSE OutNull
        confidence ==
            IF onlyFood.confidence.t \in {"undef", "null"} THEN OutNum(10)
            ELSE onlyFood.confidence
    IN OkResponse("shortcut", NutritionOut(v, p.nut),
          OrText(p.ai_summary, OrText(s1.summary, Logged(displayName))),
          IF p.hasAiFoods THEN AllAsReturned(p.ai_foods)
          ELSE <<OutFood(displayName, weight, "", Undef, confidence)>>)

\* a computed number in a JSON body (NaN is written null)
NumberOut(x) == IF x.fin THEN OutNum(x.n) ELSE OutNull

\* runPizzaScript: the value returned when the reply parses
PizzaResponse(v, p) ==
    LET slices == ToNumeric(p.slices)
        total(x) ==
            IF v = "new" THEN toNumberOfNumber(Times(ToNumeric(x), slices))
            ELSE safeNumOfNumber(Times(ToNumeric(x), slices))
    IN OkResponse("pizza",
          [f \in NutritionFields |->
              CASE f = "calories" -> total(p.calories_per_slice)
                [] f = "protein" -> total(p.protein_per_slice)
                [] f = "carbs" -> total(p.carbs_per_slice)
                [] f = "fat" -> total(p.fat_per_slice)
                [] OTHER -> Undef],
          p.summary,
          <<OutFood(p.type,
                    NumberOut(Times(ToNumeric(p.weight_per_slice_g), slices)),
                    "", Undef, OutNum(9))>>)

\* the last response of the mixed-meal path (nut: what buildCompleteNutrition
\* made of Stage 2's reply)
FinalResponse(v, s0, s1, nut, friendlySummary) ==
    OkResponse("final",
        IF v = "new" THEN RoundedForUI(nut) ELSE nut,
        friendlySummary,
        IF v = "new"
        THEN normalizeAiFoodsNew(TRUE,
                [i \in DOMAIN s1.foods |-> normalizeChickenName(s1.foods[i])],
                s0.normalized_name, NumberOrNull(s0.quantity_description))
        ELSE AllAsReturned(s1.foods))

\* new.ts: stage1.foods.map throws when Stage 1's value has no foods
FinalResponseThrows(v, s1) == v = "new" /\ ~s1.hasFoods

(***************************************************************************)
(* lib/longevity.ts: the seeded placeholder analyses.                      *)
(* A string is here a sequence of UTF-16 code units, each written as the   *)
(* one-character string it prints as ("U+00E9" and "U+0301" for the two    *)
(* code units outside ASCII that the inputs use).                          *)
(***************************************************************************)
\* value.charCodeAt(index)
charCodeAt ==
    (" " :> 32) @@ ("\"" :> 34) @@ ("#" :> 35) @@ ("%" :> 37) @@
    ("&" :> 38) @@ ("(" :> 40) @@ (")" :> 41) @@ ("+" :> 43) @@
    ("," :> 44) @@ ("-" :> 45) @@ ("." :> 46) @@ ("/" :> 47) @@
    ("0" :> 48) @@ ("1" :> 49) @@ ("2" :> 50) @@ ("3" :> 51) @@
    ("4" :> 52) @@ ("5" :> 53) @@ ("6" :> 54) @@ ("7" :> 55) @@
    ("8" :> 56) @@ ("9" :> 57) @@ (":" :> 58) @@ (";" :> 59) @@
    ("=" :> 61) @@ ("?" :> 63) @@ ("@" :> 64) @@ ("A" :> 65) @@
    ("B" :> 66) @@ ("C" :> 67) @@ ("D" :> 68) @@ ("E" :> 69) @@
    ("F" :> 70) @@ ("G" :> 71) @@ ("H" :> 72) @@ ("I" :> 73) @@
    ("J" :> 74) @@ ("K" :> 75) @@ ("L" :> 76) @@ ("M" :> 77) @@
    ("N" :> 78) @@ ("O" :> 79) @@ ("P" :> 80) @@ ("Q" :> 81) @@
    ("R" :> 82) @@ ("S" :> 83) @@ ("T" :> 84) @@ ("U" :> 85) @@
    ("V" :> 86) @@ ("W" :> 87) @@ ("X" :> 88) @@ ("Y" :> 89) @@
    ("Z" :> 90) @@ ("[" :> 91) @@ ("]" :> 93) @@ ("_" :> 95) @@
    ("a" :> 97) @@ ("b" :> 98) @@ ("c" :> 99) @@ ("d" :> 100) @@
    ("e" :> 101) @@ ("f" :> 102) @@ ("g" :> 103) @@ ("h" :> 104) @@
    ("i" :> 105) @@ ("j" :> 106) @@ ("k" :> 107) @@ ("l" :> 108) @@
    ("m" :> 109) @@ ("n" :> 110) @@ ("o" :> 111) @@ ("p" :> 112) @@
    ("q" :> 113) @@ ("r" :> 114) @@ ("s" :> 115) @@ ("t" :> 116) @@
    ("u" :> 117) @@ ("v" :> 118) @@ ("w" :> 119) @@ ("x" :> 120) @@
    ("y" :> 121) @@ ("z" :> 122) @@ ("{" :> 123) @@ ("|" :> 124) @@
    ("}" :> 125) @@ ("~" :> 126) @@ ("U+00E9" :> 233) @@ ("U+0301" :> 769)

\* a ^ b on 16-bit values
RECURSIVE Xor(_, _)
Xor(a, b) ==
    IF a = 0 THEN b
    ELSE IF b = 0 THEN a
    ELSE ((a + b) % 2) + 2 * Xor(a \div 2, b \div 2)

\* a 32-bit unsigned value as two 16-bit halves
Word(hi, lo) == [hi |-> hi, lo |-> lo]

\* 2166136261 = 0x811C9DC5
FnvOffset == Word(33052, 40389)

\* hash ^= code; hash = Math.imul(hash, 16777619)
\* (16777619 = 2^24 + 403, the product taken modulo 2^32)
FnvStep(hash, code) ==
    LET lo == Xor(hash.lo, code)
        low == lo * 403
    IN Word((hash.hi * 403 + low \div 65536 + (lo % 256) * 256) % 65536,
            low % 65536)

\* hash32: FNV-1a over the code units first..last of the value, continued
\* from the hash of the units before them (the loop, cut in halves; the
\* hash of the first half, a 32-bit value, is computed before the second)
RECURSIVE FnvOver(_, _, _, _)
FnvOver(hash, value, first, last) ==
    IF first > last THEN hash
    ELSE IF first = last THEN FnvStep(hash, charCodeAt[value[first]])
    ELSE LET middle == (first + last) \div 2
             half == FnvOver(hash, value, first, middle)
         IN CASE half.hi < 65536 /\ half.lo < 65536 ->
                     FnvOver(half, value, middle + 1, last)

\* the unsigned 32-bit value hash >>> 0
hash32(value) == FnvOver(FnvOffset, value, 1, Len(value))

\* Math.round((max - min) * hashed / 4294967295), max - min < 64:
\* with (max - min) * hashed = a * 2^32 + b the quotient by 2^32 - 1 is a,
\* or a + 1 when a + b reaches 2^32 - 1, and the rest is rounded up when
\* it is at least 2^31
ScaledRatio(span, hashed) ==
    LET t0 == span * hashed.lo
        t1 == span * hashed.hi + t0 \div 65536
        a == t1 \div 65536
        sumLo == (t0 % 65536) + a
        sumHi == (t1 % 65536) + sumLo \div 65536
    IN IF sumHi >= 65536 \/ (sumHi = 65535 /\ sumLo % 65536 = 65535)
       THEN a + 1
       ELSE IF sumHi >= 32768 THEN a + 1 ELSE a

\* Math.max(min, Math.min(max, value))
clamp(value, lowest, highest) ==
    IF value < lowest THEN lowest
    ELSE IF value > highest THEN highest
    ELSE value

\* scoreFromSeed from the hash on
scoreFromHash(hashed, min, max) ==
    clamp(min + ScaledRatio(max - min, hashed), min, max)

\* scoreFromSeed
scoreFromSeed(seed, min, max) == scoreFromHash(hash32(seed), min, max)

\* a JSON value as the handler receives it; the entries of an object are
\* kept in insertion order, which is the order Object.entries lists them in
UndefinedValue == [type |-> "undefined"]
NullValue == [type |-> "null"]
NumberValue(n) == [type |-> "number", n |-> n]
StringValue(chars) == [type |-> "string", chars |-> chars]
ArrayValue(items) == [type |-> "array", items |-> items]
ObjectValue(entries) == [type |-> "object", entries |-> entries]
Entry(key, val) == [key |-> key, val |-> val]

\* value[key]
Get(value, key) ==
    IF value.type = "object"
          /\ \E i \in DOMAIN value.entries : value.entries[i].key = key
    THEN value.entries[CHOOSE i \in DOMAIN value.entries :
                           value.entries[i].key = key].val
    ELSE UndefinedValue

\* isPlainObject
isPlainObject(value) == value.type = "object"

\* String(n), JSON.stringify(n) of a non-negative integer
DigitChars == <<"0", "1", "2", "3", "4", "5", "6", "7", "8", "9">>

RECURSIVE NumberToString(_)
NumberToString(n) ==
    IF n < 10 THEN <<DigitChars[n + 1]>>
    ELSE NumberToString(n \div 10) \o <<DigitChars[(n % 10) + 1]>>

\* JSON.stringify of a string that needs no escape
Quoted(chars) == <<"\"">> \o chars \o <<"\"">>

\* the canonical decomposition of a string (U+00E9 is e followed by U+0301)
RECURSIVE Decomposed(_)
Decomposed(chars) ==
    IF chars = <<>> THEN <<>>
    ELSE (IF Head(chars) = "U+00E9" THEN <<"e", "U+0301">>
          ELSE <<Head(chars)>>) \o Decomposed(Tail(chars))

RECURSIVE CompareUnits(_, _)
CompareUnits(a, b) ==
    IF a = <<>> THEN (IF b = <<>> THEN 0 ELSE -1)
    ELSE IF b = <<>> THEN 1
    ELSE IF charCodeAt[Head(a)] < charCodeAt[Head(b)] THEN -1
    ELSE IF charCodeAt[Head(a)] > charCodeAt[Head(b)] THEN 1
    ELSE CompareUnits(Tail(a), Tail(b))

\* a.localeCompare(b): 0 for canonically equivalent strings (ECMA-262
\* 22.1.3.12); the order given to other strings is the collation's, which
\* for the lowercase keys used here is the order of their code units
localeCompare(a, b) == CompareUnits(Decomposed(a), Decomposed(b))

\* Array.prototype.sort is stable: an entry goes after the entries that do
\* not compare greater than it
RECURSIVE InsertSorted(_, _)
InsertSorted(sorted, entry) ==
    IF sorted = <<>> THEN <<entry>>
    ELSE IF localeCompare(Head(sorted).key, entry.key) > 0
         THEN <<entry>> \o sorted
         ELSE <<Head(sorted)>> \o InsertSorted(Tail(sorted), entry)

RECURSIVE SortedEntries(_)
SortedEntries(entries) ==
    IF entries = <<>> THEN <<>>
    ELSE InsertSorted(SortedEntries(SubSeq(entries, 1, Len(entries) - 1)),
                      entries[Len(entries)])

\* parts.join(separator)
RECURSIVE Join(_, _)
Join(parts, separator) ==
    IF parts = <<>> THEN <<>>
    ELSE IF Len(parts) = 1 THEN parts[1]
    ELSE parts[1] \o separator \o Join(Tail(parts), separator)

\* stableStringify
RECURSIVE stableStringify(_)
stableStringify(value) ==
    CASE value.type = "null" -> <<"n", "u", "l", "l">>
      [] value.type = "undefined" -> <<"u", "n", "d", "e", "f", "i", "n", "e", "d">>
      [] value.type = "number" -> NumberToString(value.n)
      [] value.type = "string" -> Quoted(value.chars)
      [] value.type = "array" ->
            <<"[">> \o Join([i \in DOMAIN value.items |->
                                stableStringify(value.items[i])], <<",">>)
                    \o <<"]">>
      [] value.type = "object" ->
            LET entries == SortedEntries(value.entries)
            IN <<"{">> \o Join([i \in DOMAIN entries |->
                                   Quoted(entries[i].key) \o <<":">>
                                       \o stableStringify(entries[i].val)],
                               <<",">>)
                       \o <<"}">>

\* a string of white space only, a string of decimal digits and its value
IsBlankString(chars) == \A i \in DOMAIN chars : chars[i] = " "

IsDecimal(chars) ==
    /\ chars # <<>>
    /\ \A i \in DOMAIN chars : \E d \in DOMAIN DigitChars : DigitChars[d] = chars[i]

RECURSIVE DecimalValue(_)
DecimalValue(chars) ==
    IF chars = <<>> THEN 0
    ELSE DecimalValue(SubSeq(chars, 1, Len(chars) - 1)) * 10
            + (CHOOSE d \in DOMAIN DigitChars :
                  DigitChars[d] = chars[Len(chars)]) - 1

\* toNumber(value, fallback) of lib/longevity.ts: Number(value) when it is
\* finite (Number(null) is 0), the fallback otherwise
toFiniteNumber(value, fallback) ==
    CASE value.type = "number" -> value.n
      [] value.type = "null" -> 0
      [] value.type = "string" /\ IsBlankString(value.chars) -> 0
      [] value.type = "string" /\ IsDecimal(value.chars) ->
            DecimalValue(value.chars)
      [] value.type = "array" /\ value.items = <<>> -> 0
      [] OTHER -> fallback

\* pickComputed
pickComputed(today, record) ==
    IF isPlainObject(Get(today, <<"c", "o", "m", "p", "u", "t", "e", "d">>)) THEN Get(today, <<"c", "o", "m", "p", "u", "t", "e", "d">>)
    ELSE IF record.type = "object"
              /\ isPlainObject(Get(record, <<"c", "o", "m", "p", "u", "t", "e", "d">>))
         THEN Get(record, <<"c", "o", "m", "p", "u", "t", "e", "d">>)
    ELSE ObjectValue(<<>>)

\* value.trim() of a string of code units
RECURSIVE trimmed(_)
trimmed(chars) ==
    IF chars = <<>> THEN <<>>
    ELSE IF Head(chars) = " " THEN trimmed(Tail(chars))
    ELSE IF chars[Len(chars)] = " "
         THEN trimmed(SubSeq(chars, 1, Len(chars) - 1))
    ELSE chars

\* Math.round of a non-negative number of hundredths
RoundHundredths(x) == (x + 50) \div 100

\* buildExercisePlan; the lines are written by their first words, the
\* Friday line with the intensity it embeds
Intensity(healthScore) ==
    IF healthScore >= 75 THEN "moderate-high"
    ELSE IF healthScore >= 55 THEN "moderate"
    ELSE "moderate-low"

\* a variant that moves the jawline threshold
DebloatBelow65(input) ==
    input.faceFatEstimate = "high" \/ input.jawlineIndex < 65

\* input.faceFatEstimate === "high" || input.jawlineIndex < 60
Debloat(input) == input.faceFatEstimate = "high" \/ input.jawlineIndex < 60

buildExercisePlan(input) ==
    LET oneWeek == <<
            "Mon: 1) Mewing Hold [TIME 90s x 4] ...",
            "Tue: 1) Jaw Mobility Drill [TIME 120s x 2] 2) Tongue Posture Clicks ...",
            "Wed: 1) Mewing Pulses [TIME 60s x 5] ...",
            "Thu: 1) Chewing Protocol [TIME 300s x 2] ...",
            <<"Fri: 1) Mewing Endurance [TIME 120s x 4] ... + Full-body (",
              Intensity(input.healthScore), ").">>,
            "Sat: 1) Lymph Drain Sequence [TIME 300s x 2] ...",
            "Sun: 1) Face+Neck Mobility [TIME 300s x 2] ...">>
        oneMonth == <<
            "Week 1: Technique phase. ...",
            "Week 2: Volume phase. ...",
            "Week 3: Definition phase. ...",
            "Week 4: Consolidation. ...">>
        debloat == Debloat(input)
        oneWeek5 ==
            IF debloat
            THEN [oneWeek EXCEPT ![6] =
                     "Sat: 1) Lymph Drain Sequence [TIME 360s x 2] ... + strict de-bloat day."]
            ELSE oneWeek
        oneWeek1 ==
            IF input.skinClarityIndex < 60
            THEN [oneWeek5 EXCEPT ![2] =
                     "Tue: 1) Jaw Mobility Drill [TIME 120s x 2] 2) Tongue Clicks ... + hydration/SPF focus."]
            ELSE oneWeek5
    IN [oneWeek |-> oneWeek1,
        oneMonth |-> IF debloat
                     THEN [oneMonth EXCEPT ![3] =
                              "Week 3: Keep deficit mild, ..."]
                     ELSE oneMonth]

\* toNumber(pickComputed(input.today, input.healthRecord).healthScore, 70)
healthScoreOf(input) ==
    toFiniteNumber(Get(pickComputed(input.today, input.healthRecord),
                       <<"h", "e", "a", "l", "t", "h", "S", "c", "o", "r", "e">>), 70)

\* the seed shared by the scores of one analysis
seedBase(input, kind) ==
    Join(<<input.uid, trimmed(input.imageUrl), stableStringify(input.today),
           stableStringify(input.history),
           stableStringify(input.healthRecord), kind>>, <<"|">>)

\* a variant with a strict upper threshold
FaceFatOfAbove(combined) ==
    IF combined > 72 THEN "low"
    ELSE IF combined >= 52 THEN "medium"
    ELSE "high"

\* combined >= 72 ? "low" : combined >= 52 ? "medium" : "high"
FaceFatOf(combined) ==
    IF combined >= 72 THEN "low"
    ELSE IF combined >= 52 THEN "medium"
    ELSE "high"

\* buildFaceAnalysis; the weights are in hundredths, and the fixed
\* suggestion lists are left out
buildFaceAnalysis(input) ==
    LET seed == seedBase(input, <<"f", "a", "c", "e">>)
        Score(label, min, max) == scoreFromSeed(seed \o label, min, max)
        healthScore == healthScoreOf(input)
        jawlineIndex ==
            clamp(RoundHundredths(Score(<<"|", "j", "a", "w", "l", "i", "n", "e">>, 40, 94) * 75
                                  + healthScore * 25), 30, 98)
        skinClarityIndex ==
            clamp(RoundHundredths(Score(<<"|", "s", "k", "i", "n">>, 42, 95) * 72
                                  + healthScore * 28), 30, 98)
        potential ==
            clamp(RoundHundredths(jawlineIndex * 40 + skinClarityIndex * 35
                                  + healthScore * 25), 30, 99)
        eyeArea ==
            clamp(RoundHundredths(Score(<<"|", "e", "y", "e">>, 38, 94) * 70
                                  + skinClarityIndex * 30), 30, 99)
        cheekbones ==
            clamp(RoundHundredths(Score(<<"|", "c", "h", "e", "e", "k">>, 40, 95) * 70
                                  + jawlineIndex * 30), 30, 99)
        symmetry ==
            clamp(RoundHundredths(Score(<<"|", "s", "y", "m">>, 40, 94) * 65
                                  + potential * 35), 30, 99)
        facialThirds ==
            clamp(RoundHundredths(Score(<<"|", "t", "h", "i", "r", "d", "s">>, 38, 93) * 65
                                  + symmetry * 35), 30, 99)
        skinQuality ==
            clamp(RoundHundredths(Score(<<"|", "s", "k", "i", "n", "q">>, 38, 95) * 60
                                  + skinClarityIndex * 40), 30, 99)
        overallScore ==
            clamp(RoundHundredths(potential * 20 + jawlineIndex * 18
                                  + eyeArea * 12 + cheekbones * 12
                                  + symmetry * 13 + facialThirds * 10
                                  + skinQuality * 15), 0, 100)
        combined == (jawlineIndex + skinClarityIndex + 1) \div 2
        faceFatEstimate == FaceFatOf(combined)
    IN [jawlineIndex |-> jawlineIndex,
        skinClarityIndex |-> skinClarityIndex,
        faceFatEstimate |-> faceFatEstimate,
        overallScore |-> overallScore,
        measurements |->
            [potential |-> potential, jawline |-> jawlineIndex,
             eyeArea |-> eyeArea, cheekbones |-> cheekbones,
             symmetry |-> symmetry, facialThirds |-> facialThirds,
             skinQuality |-> skinQuality],
        exercisePlan |->
            buildExercisePlan([jawlineIndex |-> jawlineIndex,
                               skinClarityIndex |-> skinClarityIndex,
                               faceFatEstimate |-> faceFatEstimate,
                               healthScore |-> healthScore]),
        notes |-> <<"Placeholder vision scoring ...",
                    <<"Overall", overallScore, "Jawline", jawlineIndex,
                      "skin clarity", skinClarityIndex>>,
                    <<"Estimated facial fat tendency:", faceFatEstimate>>>>]

\* a variant whose last threshold is 60
bodyFatRangeEstimateOfSixty(postureScore, muscleDefinitionScore) ==
    LET bodySignal ==
            (100 - postureScore + 100 - muscleDefinitionScore + 1) \div 2
    IN IF bodySignal < 25 THEN "10-16%"
       ELSE IF bodySignal < 45 THEN "14-20%"
       ELSE IF bodySignal < 60 THEN "18-24%"
       ELSE "22-30%"

\* buildBodyAnalysis: bodySignal and the body fat range of the two scores
bodyFatRangeEstimateOf(postureScore, muscleDefinitionScore) ==
    LET bodySignal ==
            (100 - postureScore + 100 - muscleDefinitionScore + 1) \div 2
    IN IF bodySignal < 25 THEN "10-16%"
       ELSE IF bodySignal < 45 THEN "14-20%"
       ELSE IF bodySignal < 65 THEN "18-24%"
       ELSE "22-30%"

\* buildBodyAnalysis
buildBodyAnalysis(input) ==
    LET seed == seedBase(input, <<"b", "o", "d", "y">>)
        postureScore == scoreFromSeed(seed \o <<"|", "p", "o", "s", "t", "u", "r", "e">>, 40, 93)
        muscleDefinitionScore ==
            scoreFromSeed(seed \o <<"|", "m", "u", "s", "c", "l", "e">>, 35, 91)
        bodyFatRangeEstimate ==
            bodyFatRangeEstimateOf(postureScore, muscleDefinitionScore)
    IN [bodyFatRangeEstimate |-> bodyFatRangeEstimate,
        postureScore |-> postureScore,
        muscleDefinitionScore |-> muscleDefinitionScore,
        notes |-> <<"Placeholder body analysis ...",
                    <<"Posture score:", postureScore,
                      "muscle definition score:", muscleDefinitionScore>>,
                    <<"Estimated body fat range:", bodyFatRangeEstimate>>>>]

(***************************************************************************)
(* api/longevity/face-analyze.ts and body-analyze.ts.                      *)
(***************************************************************************)
AnalysisHandlers == {"face-analyze", "body-analyze"}

\* the outbound calls of an analysis request: verifyIdToken (identity
\* provider), the health record read and the analysis write (document
\* store), the vision call (LLM), and the read and write of
\* body-analyze's catch block
AnalysisCalls ==
    {"auth", "load", "vision", "persist", "fallback_load", "fallback_persist"}

Tokens == {"none", "bearer"}

\* the outbound calls of a barcode request: OpenFoodFacts, then the LLM
BarcodeCalls == {"off", "gpt"}

\* decoded.uid
Uid == <<"u", "1">>

Computed(healthScore) ==
    Entry(<<"c", "o", "m", "p", "u", "t", "e", "d">>,
          ObjectValue(<<Entry(<<"h", "e", "a", "l", "t", "h", "S", "c", "o", "r", "e">>,
                              NumberValue(healthScore))>>))

DateEntry == Entry(<<"d", "a", "t", "e">>, StringValue(<<"2", "0", "2", "6", "-", "0", "1", "-", "0", "5">>))

\* request bodies: a well-formed one, and bodies without imageUrl, with a
\* blank imageUrl, with an array for today, with a number in history
Body(imageUrl, today, history) ==
    [imageUrl |-> imageUrl, today |-> today, history |-> history]

GoodBody ==
    Body(StringValue(<<"a", ".", "j", "p", "g">>), ObjectValue(<<DateEntry, Computed(80)>>),
         ArrayValue(<<>>))

Payloads ==
    {GoodBody,
     Body(UndefinedValue, GoodBody.today, GoodBody.history),
     Body(StringValue(<<" ">>), GoodBody.today, GoodBody.history),
     Body(GoodBody.imageUrl, ArrayValue(<<>>), GoodBody.history),
     Body(GoodBody.imageUrl, GoodBody.today, ArrayValue(<<NumberValue(1)>>))}

\* isNonEmptyString
isNonEmptyString(value) ==
    value.type = "string" /\ trimmed(value.chars) # <<>>

\* isObjectArray
isObjectArray(value) ==
    /\ value.type = "array"
    /\ \A i \in DOMAIN value.items : isPlainObject(value.items[i])

\* a variant that validates imageUrl only
InvalidPayloadImageOnly(body) == ~isNonEmptyString(body.imageUrl)

\* parseFaceAnalyzeRequest, parseBodyAnalyzeRequest return null
InvalidPayload(body) ==
    \/ ~isNonEmptyString(body.imageUrl)
    \/ ~isPlainObject(body.today)
    \/ ~isObjectArray(body.history)

\* what the store holds for the day: no document, or a health record
HealthRecords == {NullValue, ObjectValue(<<Computed(50)>>)}

\* the read of the health record: it fails, or it returns what is stored
LoadReplies ==
    {[failed |-> TRUE, record |-> NullValue]}
        \cup {[failed |-> FALSE, record |-> r] : r \in HealthRecords}

\* the JSON objects a vision reply may carry (the fields the handlers read,
\* without measurements, suggestions, notes and exercisePlan)
VisionObjs ==
    {[jawlineIndex |-> Num(815), skinClarityIndex |-> Num(640),
      faceFatEstimate |-> "low", postureScore |-> Num(700),
      muscleDefinitionScore |-> Num(1200), bodyFatRangeEstimate |-> "12-15%"],
     [jawlineIndex |-> Num(600), skinClarityIndex |-> BadStr,
      faceFatEstimate |-> "", postureScore |-> Undef,
      muscleDefinitionScore |-> NumStr(550), bodyFatRangeEstimate |-> ""]}

\* a truthy JSON value that is not an object
JScalar == [j |-> "scalar", v |-> EmptyObj]

\* the reply to the vision call: resp.ok false
NotOk == [net |-> "notok", content |-> EmptyContent, text |-> <<>>]

VisionReplies ==
    {Throw, NotOk, NoChoices, Message(Garbage), Message(Fenced(JFalsy)),
     Message(Fenced(JScalar))}
        \cup {Message(RawJson(o)) : o \in VisionObjs}

\* clamp(Math.round(Number(value) || 0), 0, 100)
VisionScore(value) ==
    clamp(IF ToNumeric(value).fin THEN MathRound(ToNumeric(value).n) \div 10
          ELSE 0, 0, 100)

NoResult == [kind |-> "none"]
NoVision == [ok |-> FALSE, result |-> NoResult]

\* runVisionFaceAnalysis from the reply on (measurements, overallScore and
\* suggestions left out)
FaceVisionResult(o) ==
    LET jawlineIndex == VisionScore(o.jawlineIndex)
    IN [jawlineIndex |-> jawlineIndex,
        skinClarityIndex |-> VisionScore(o.skinClarityIndex),
        faceFatEstimate |->
            IF o.faceFatEstimate \in {"low", "medium", "high"}
            THEN o.faceFatEstimate
            ELSE IF jawlineIndex >= 72 THEN "low"
            ELSE IF jawlineIndex >= 52 THEN "medium"
            ELSE "high",
        notes |-> <<"AI vision analysis complete.">>]

\* runVisionBodyAnalysis from the reply on (exercisePlan left out)
BodyVisionResult(o) ==
    [bodyFatRangeEstimate |->
         IF o.bodyFatRangeEstimate # "" THEN o.bodyFatRangeEstimate
         ELSE "18-24%",
     postureScore |-> VisionScore(o.postureScore),
     muscleDefinitionScore |-> VisionScore(o.muscleDefinitionScore),
     notes |-> <<"AI vision analysis complete.",
                 "Posture and muscle definition are estimates from visible cues.">>]

\* what runVision...Analysis returns for a reply that came: null when
\* resp.ok is false and when extractJson gives no object
VisionOf(handler, reply) ==
    LET parsed == extractJson(ContentOf(reply))
    IN IF reply.net = "notok" \/ parsed.j # "obj" THEN NoVision
       ELSE [ok |-> TRUE,
             result |-> IF handler = "face-analyze"
                        THEN FaceVisionResult(parsed.v)
                        ELSE BodyVisionResult(parsed.v)]

\* buildFaceAnalysis({...}), buildBodyAnalysis({...}) as the handlers call
\* them
PlaceholderOf(handler, body, record) ==
    LET input == [uid |-> Uid, imageUrl |-> body.imageUrl.chars,
                  today |-> body.today, history |-> body.history,
                  healthRecord |-> record]
    IN IF handler = "face-analyze" THEN buildFaceAnalysis(input)
       ELSE buildBodyAnalysis(input)

\* a variant tagging every document as the vision model's
SourceTagAlwaysVision(v) == "vision_ai"

\* vision ? "vision_ai" : "placeholder"
SourceTag(v) == IF v.ok THEN "vision_ai" ELSE "placeholder"

NotStored == [source |-> "none", result |-> NoResult]

\* the bodyAnalyze / faceAnalyze field of the day's aiAnalysis document
Document(body, source, analysed) ==
    [imageUrl |-> body.imageUrl, today |-> body.today,
     history |-> body.history, source |-> source, result |-> analysed]

NoAnalysis == [function |-> "none", input |-> NoResult, output |-> NoResult]

(***************************************************************************)
(* extractJson on the characters of a text: the two regular expressions    *)
(* and JSON.parse, JSON.stringify. A text is a sequence of code units as   *)
(* in lib/longevity.ts; "U+0060" is the backtick. The JSON read here has   *)
(* objects, arrays, strings without escapes, non-negative integers and     *)
(* null.                                                                   *)
(***************************************************************************)
Backtick == "U+0060"

\* \s of a regular expression and the white space of JSON
IsSpace(c) == c \in {" ", "\n"}

Digits == {"0", "1", "2", "3", "4", "5", "6", "7", "8", "9"}

DigitValue(c) == CHOOSE n \in 0..9 : DigitChars[n + 1] = c

Least(S) == CHOOSE n \in S : \A m \in S : n <= m

Greatest(S) == CHOOSE n \in S : \A m \in S : n >= m

\* the first position from i on that holds no white space (Len + 1: none)
SkipSpace(chars, i) ==
    Least({j \in i..Len(chars) + 1 : j > Len(chars) \/ ~IsSpace(chars[j])})

\* what a parsing step returns: failure, or a value and the position after it
Failed == [ok |-> FALSE, val |-> NullValue, next |-> 0]
Parsed(val, next) == [ok |-> TRUE, val |-> val, next |-> next]

\* a string: from the quote at i to the next quote, no control character
\* between them
ParseString(chars, i) ==
    LET closing == {j \in i + 1..Len(chars) : chars[j] = "\""}
    IN IF closing = {} THEN Failed
       ELSE LET j == Least(closing)
            IN IF \E k \in i + 1..j - 1 : chars[k] = "\n" THEN Failed
               ELSE Parsed(StringValue(SubSeq(chars, i + 1, j - 1)), j + 1)

RECURSIVE DigitsValue(_, _, _)
DigitsValue(chars, i, j) ==
    IF j < i THEN 0
    ELSE DigitsValue(chars, i, j - 1) * 10 + DigitValue(chars[j])

\* a number: 0, or a run of digits that does not start with 0
ParseNumber(chars, i) ==
    IF chars[i] = "0" THEN Parsed(NumberValue(0), i + 1)
    ELSE LET j == Least({k \in i..Len(chars) :
                            k = Len(chars) \/ chars[k + 1] \notin Digits})
         IN Parsed(NumberValue(DigitsValue(chars, i, j)), j + 1)

\* the literal null at position i
NullAt(chars, i) ==
    /\ i + 3 <= Len(chars)
    /\ SubSeq(chars, i, i + 3) = <<"n", "u", "l", "l">>

\* a key that comes again replaces the value where the key stands
Define(entries, key, val) ==
    IF \E i \in DOMAIN entries : entries[i].key = key
    THEN [i \in DOMAIN entries |->
             IF entries[i].key = key THEN Entry(key, val) ELSE entries[i]]
    ELSE Append(entries, Entry(key, val))

RECURSIVE ParseValue(_, _)
RECURSIVE ParseElements(_, _, _)
RECURSIVE ParseMembers(_, _, _)

\* the elements of an array from position i on, items read so far
ParseElements(chars, i, items) ==
    LET element == ParseValue(chars, i)
        after == SkipSpace(chars, element.next)
    IN IF ~element.ok \/ after > Len(chars) THEN Failed
       ELSE IF chars[after] = "]"
       THEN Parsed(ArrayValue(Append(items, element.val)), after + 1)
       ELSE IF chars[after] = ","
       THEN ParseElements(chars, after + 1, Append(items, element.val))
       ELSE Failed

\* the members of an object from position i on, entries read so far
ParseMembers(chars, i, entries) ==
    LET k == SkipSpace(chars, i)
    IN IF k > Len(chars) \/ chars[k] # "\"" THEN Failed
       ELSE LET key == ParseString(chars, k)
                colon == IF key.ok THEN SkipSpace(chars, key.next) ELSE 0
            IN IF ~key.ok \/ colon > Len(chars) \/ chars[colon] # ":"
               THEN Failed
               ELSE LET member == ParseValue(chars, colon + 1)
                        after == SkipSpace(chars, member.next)
                        defined == Define(entries, key.val.chars, member.val)
                    IN IF ~member.ok \/ after > Len(chars) THEN Failed
                       ELSE IF chars[after] = "}"
                       THEN Parsed(ObjectValue(defined), after + 1)
                       ELSE IF chars[after] = ","
                       THEN ParseMembers(chars, after + 1, defined)
                       ELSE Failed

\* the JSON value that starts at or after position i
ParseValue(chars, i) ==
    LET k == SkipSpace(chars, i)
    IN IF k > Len(chars) THEN Failed
       ELSE IF chars[k] = "{"
       THEN IF SkipSpace(chars, k + 1) <= Len(chars)
                  /\ chars[SkipSpace(chars, k + 1)] = "}"
            THEN Parsed(ObjectValue(<<>>), SkipSpace(chars, k + 1) + 1)
            ELSE ParseMembers(chars, k + 1, <<>>)
       ELSE IF chars[k] = "["
       THEN IF SkipSpace(chars, k + 1) <= Len(chars)
                  /\ chars[SkipSpace(chars, k + 1)] = "]"
            THEN Parsed(ArrayValue(<<>>), SkipSpace(chars, k + 1) + 1)
            ELSE ParseElements(chars, k + 1, <<>>)
       ELSE IF chars[k] = "\"" THEN ParseString(chars, k)
       ELSE IF chars[k] \in Digits THEN ParseNumber(chars, k)
       ELSE IF NullAt(chars, k) THEN Parsed(NullValue, k + 4)
       ELSE Failed

\* JSON.parse: ok is FALSE where it throws a SyntaxError
JSONparse(chars) ==
    LET value == ParseValue(chars, 1)
    IN IF value.ok /\ SkipSpace(chars, value.next) > Len(chars)
       THEN [ok |-> TRUE, val |-> value.val]
       ELSE [ok |-> FALSE, val |-> NullValue]

\* JSON.stringify of a value JSON.parse returned
RECURSIVE JSONstringify(_)
JSONstringify(value) ==
    CASE value.type = "null" -> <<"n", "u", "l", "l">>
      [] value.type = "number" -> NumberToString(value.n)
      [] value.type = "string" -> Quoted(value.chars)
      [] value.type = "array" ->
            <<"[">> \o Join([i \in DOMAIN value.items |->
                                JSONstringify(value.items[i])], <<",">>)
                    \o <<"]">>
      [] value.type = "object" ->
            <<"{">> \o Join([i \in DOMAIN value.entries |->
                                Quoted(value.entries[i].key) \o <<":">>
                                    \o JSONstringify(value.entries[i].val)],
                            <<",">>)
                    \o <<"}">>

\* three backticks at position i
FenceAt(chars, i) ==
    /\ i + 2 <= Len(chars)
    /\ \A j \in i..i + 2 : chars[j] = Backtick

\* the capture of /```(?:json)?\s*([\s\S]*?)\s*```/i that starts at the
\* opening fence at position i: after the optional tag and the white space,
\* the shortest run that white space and a fence follow
FenceCaptureAt(chars, i) ==
    LET tagged == /\ i + 6 <= Len(chars)
                  /\ SubSeq(chars, i + 3, i + 6) = <<"j", "s", "o", "n">>
        from == SkipSpace(chars, IF tagged THEN i + 7 ELSE i + 3)
        ends == {k \in from..Len(chars) : FenceAt(chars, SkipSpace(chars, k))}
    IN IF ends = {} THEN [found |-> FALSE, capture |-> <<>>]
       ELSE [found |-> TRUE, capture |-> SubSeq(chars, from, Least(ends) - 1)]

\* text.match(/```(?:json)?\s*([\s\S]*?)\s*```/i): the leftmost opening
\* fence from which the expression matches
FenceCapture(chars) ==
    LET openings == {i \in 1..Len(chars) :
                        FenceAt(chars, i) /\ FenceCaptureAt(chars, i).found}
    IN IF openings = {} THEN [found |-> FALSE, capture |-> <<>>]
       ELSE FenceCaptureAt(chars, Least(openings))

\* text.match(/\{[\s\S]*\}/): from the first { to the last } after it
BraceCapture(chars) ==
    LET opens == {i \in 1..Len(chars) : chars[i] = "{"}
        closes == {i \in 1..Len(chars) : chars[i] = "}"}
    IN IF opens = {} \/ closes = {} \/ Greatest(closes) < Least(opens)
       THEN [found |-> FALSE, capture |-> <<>>]
       ELSE [found |-> TRUE,
             capture |-> SubSeq(chars, Least(opens), Greatest(closes))]

\* try { return JSON.parse(capture) } catch {}
TryParse(capture) ==
    IF JSONparse(capture).ok THEN JsonMatch(JSONparse(capture).val)
    ELSE BadMatch

\* what the two expressions find in a text; an empty fenced capture is
\* falsy and counts as no match
Matches(chars) ==
    [empty |-> chars = <<>>,
     fence |-> IF FenceCapture(chars).found /\ FenceCapture(chars).capture # <<>>
               THEN TryParse(FenceCapture(chars).capture) ELSE NoMatch,
     raw |-> IF BraceCapture(chars).found
             THEN TryParse(BraceCapture(chars).capture) ELSE NoMatch]

\* extractJson(text) of a text given by its characters
extractJsonOf(chars) ==
    LET value == extractJson(Matches(chars))
    IN IF value = JNull THEN NullValue ELSE value

(***************************************************************************)
(* The state machine of one request.                                       *)
(***************************************************************************)
NoClassification ==
    [kind |-> "", normalized_name |-> <<>>, quantity_description |-> <<>>]

NoStage1 == [hasFoods |-> FALSE, foods |-> <<>>, summary |-> <<>>]

NoPrompt == [foodList |-> <<>>, totalWeight |-> <<>>]

\* nothing has been received, computed or written yet
Idle ==
    /\ pc = "start"
    /\ calls = <<>>
    /\ outcome = [c \in Calls \cup AnalysisCalls \cup BarcodeCalls |-> "none"]
    /\ stage0 = NoClassification
    /\ stage1 = NoStage1
    /\ stage2Prompt = NoPrompt
    /\ nutrition = AbsentNutrition
    /\ resp = NoResponse
    /\ nResp = 0
    /\ healthRecord = NullValue
    /\ vision = NoVision
    /\ result = NoResult
    /\ stored = NotStored
    /\ applied = NoAnalysis
    /\ requests = <<>>
    /\ dayDocument = NullValue
    /\ writes = <<>>

\* one request arrives, at a nutrition handler or at an analysis handler
Init ==
    /\ \/ /\ variant \in Variants
          /\ description \in Descriptions
          /\ photoUrl \in PhotoUrls
          /\ token = "none"
          /\ payload = GoodBody
       \/ /\ variant \in AnalysisHandlers
          /\ description = <<>>
          /\ photoUrl = "none"
          /\ token \in Tokens
          /\ payload \in Payloads
    /\ method \in {"POST", "GET"}
    /\ hasKey \in BOOLEAN
    /\ Idle
    /\ analysis = NoAnalysis
    /\ previous = NoAnalysis

request ==
    <<variant, method, hasKey, description, photoUrl, token, payload>>

nutritionVars == <<stage0, stage1, stage2Prompt, nutrition>>

analysisVars == <<healthRecord, vision, result, stored>>

storeVars == <<requests, dayDocument, writes>>

libraryVars == <<analysis, previous, applied, storeVars>>

\* a variant that sends every request a second time
IssueCallWithRetry(c) ==
    /\ pc' = c
    /\ calls' = Append(Append(calls, c), c)
    /\ UNCHANGED <<resp, nResp>>

\* await fetch(...): the handler is suspended until the reply comes
IssueCall(c) ==
    /\ pc' = c
    /\ calls' = Append(calls, c)
    /\ UNCHANGED <<resp, nResp>>

\* return res.status(..).json(..)
Send(r) ==
    /\ pc' = "done"
    /\ resp' = r
    /\ nResp' = nResp + 1
    /\ UNCHANGED calls

\* an exception leaves the handler: its promise rejects, nothing is sent
Reject ==
    /\ pc' = "crashed"
    /\ UNCHANGED <<calls, resp, nResp>>

\* a variant that goes on without waiting for the reply
RecordNothing(c, reply) == outcome' = outcome

\* const resp = await fetch(...); const json = await resp.json()
Record(c, reply) == outcome' = [outcome EXCEPT ![c] = OutcomeOf(c, reply)]

\* assertValidPhotoUrl throws
InvalidPhotoUrl == photoUrl = "bad"

\* the handler from its entry to its first await
Start ==
    /\ pc = "start"
    /\ variant \in Variants
    /\ IF method # "POST"
       THEN Send(ErrorResponse(405, "method", "Method not allowed"))
       ELSE IF variant # "test" /\ ~hasKey
       THEN Send(ErrorResponse(500, "key", "Missing OpenAI key"))
       ELSE IF variant = "new" /\ InvalidPhotoUrl
       THEN Send(ErrorResponse(400, "photo", "Invalid photo URL"))
       ELSE IF variant = "chat" THEN IssueCall("stage1")
       ELSE IssueCall("stage0")
    /\ UNCHANGED <<request, analysisVars, libraryVars,
                   outcome, stage0, stage1, stage2Prompt, nutrition>>

\* the fallback classifying as a single food
ClassificationOfFallbackSingle(parsed, desc) ==
    IF Truthy(parsed)
    THEN [kind |-> parsed.v.kind, normalized_name |-> parsed.v.normalized_name,
          quantity_description |-> parsed.v.quantity_description]
    ELSE [kind |-> "single_food", normalized_name |-> desc,
          quantity_description |-> desc]

\* extractJson(stage0Content) || { kind: "mixed_meal", ... }
ClassificationOf(parsed, desc) ==
    IF Truthy(parsed)
    THEN [kind |-> parsed.v.kind, normalized_name |-> parsed.v.normalized_name,
          quantity_description |-> parsed.v.quantity_description]
    ELSE [kind |-> "mixed_meal", normalized_name |-> desc,
          quantity_description |-> desc]

\* the bypass taken for branded items only
BypassKindBrandedOnly(s0) == s0.kind = "branded"

\* stage0.kind === "branded" || stage0.kind === "single_food"
BypassKind(s0) == s0.kind = "branded" \/ s0.kind = "single_food"

\* Stage 0's reply: classify, then the bypass call or the Stage 1 call
Stage0Reply ==
    /\ pc = "stage0"
    /\ \E reply \in Answers(Stage0Replies) :
          /\ Record("stage0", reply)
          /\ IF reply.net = "throw"
             THEN Reject /\ UNCHANGED stage0
             ELSE LET s0 == ClassificationOf(extractJson(ContentOf(reply)),
                                             description)
                  IN /\ stage0' = s0
                     /\ IF BypassKind(s0) THEN IssueCall("bypass")
                        ELSE IF variant = "test" /\ ~hasKey
                        THEN Send(ErrorResponse(500, "key", "Missing OpenAI key"))
                        ELSE IssueCall("stage1")
    /\ UNCHANGED <<request, analysisVars, libraryVars,
                   stage1, stage2Prompt, nutrition>>

\* the test written === null: 0, "" and false pass as parsed
ParseFailedOnNullOnly(parsed) == Nullish(parsed)

\* if (!simpleParsed), if (!imageSimpleParsed), if (!parsed)
ParseFailed(parsed) == ~Truthy(parsed)

\* the bypass call's reply: 500 if it does not parse, else the 200 response
BypassReply ==
    /\ pc = "bypass"
    /\ \E reply \in Answers(NutritionReplies) :
          /\ Record("bypass", reply)
          /\ IF reply.net = "throw" THEN Reject
             ELSE LET simpleParsed == extractJson(ContentOf(reply))
                  IN IF ParseFailed(simpleParsed)
                     THEN Send(ErrorResponse(500, "bypass_error",
                                    "Failed to parse simple food JSON"))
                     ELSE Send(BypassResponse(variant, stage0, description,
                                              simpleParsed.v))
    /\ UNCHANGED <<request, analysisVars, libraryVars,
                   stage0, stage1, stage2Prompt, nutrition>>

\* the fallback written without its foods array: ?? { summary: "" }
Stage1OfNoFoodsFallback(parsed) ==
    [hasFoods |-> parsed.v.hasFoods, foods |-> parsed.v.foods,
     summary |-> parsed.v.summary]

\* extractJson(stage1Content) ?? { foods: [], summary: "" }
Stage1Of(parsed) ==
    IF Nullish(parsed)
    THEN [hasFoods |-> TRUE, foods |-> <<>>, summary |-> <<>>]
    ELSE [hasFoods |-> parsed.v.hasFoods, foods |-> parsed.v.foods,
          summary |-> parsed.v.summary]

\* (description + " " + summary + " " + names).toLowerCase()
combinedTextOf(s1, desc) == ToLowerCase(desc \o s1.summary \o JoinNames(s1.foods))

\* combinedText.includes("pizza")
PizzaDetected(s1, desc) == Includes(combinedTextOf(s1, desc), "pizza")

\* the guard without its count: !description && stage1.foods
Stage15GuardAnyCount(v, s1, desc) ==
    /\ v \in {"new", "part_002"}
    /\ desc = <<>>
    /\ s1.hasFoods

\* !description && stage1.foods && stage1.foods.length === 1
Stage15Guard(v, s1, desc) ==
    /\ v \in {"new", "part_002"}
    /\ desc = <<>>
    /\ s1.hasFoods
    /\ Len(s1.foods) = 1

\* Stage 2: build the prompt and issue the call
ToStage2(s1) ==
    IF FoodListThrows(variant, s1)
    THEN Reject /\ UNCHANGED stage2Prompt
    ELSE /\ IssueCall("stage2")
         /\ stage2Prompt' =
                [foodList |-> foodListOf(variant, stage0, s1, description),
                 totalWeight |-> totalWeightOf(variant, s1)]

\* the pizza check left out
ToStage2Only(s1) == ToStage2(s1)

\* the pizza special case, then Stage 2
ToPizzaOrStage2(s1) ==
    IF PizzaDetected(s1, description)
    THEN IssueCall("pizza") /\ UNCHANGED stage2Prompt
    ELSE ToStage2(s1)

\* Stage 1's reply: the foods and the summary, then Stage 1.5, the pizza
\* script or Stage 2
Stage1Reply ==
    /\ pc = "stage1"
    /\ \E reply \in Answers(Stage1Replies) :
          /\ Record("stage1", reply)
          /\ IF reply.net = "throw"
             THEN Reject /\ UNCHANGED <<stage1, stage2Prompt>>
             ELSE LET s1 == Stage1Of(extractJson(ContentOf(reply)))
                  IN /\ stage1' = s1
                     /\ IF variant = "chat" /\ ~s1.hasFoods
                        THEN Reject /\ UNCHANGED stage2Prompt
                        ELSE IF Stage15Guard(variant, s1, description)
                        THEN IssueCall("stage15") /\ UNCHANGED stage2Prompt
                        ELSE ToPizzaOrStage2(s1)
    /\ UNCHANGED <<request, analysisVars, libraryVars, stage0, nutrition>>

\* Stage 1.5's reply: the 200 response if it parses, else on to the pizza
\* check and Stage 2
Stage15Reply ==
    /\ pc = "stage15"
    /\ \E reply \in Answers(NutritionReplies) :
          /\ Record("stage15", reply)
          /\ IF reply.net = "throw"
             THEN Reject /\ UNCHANGED stage2Prompt
             ELSE LET imageSimpleParsed == extractJson(ContentOf(reply))
                  IN IF ParseFailed(imageSimpleParsed)
                     THEN ToPizzaOrStage2(stage1)
                     ELSE /\ Send(ShortcutResponse(variant, stage1, description,
                                                   imageSimpleParsed.v))
                          /\ UNCHANGED stage2Prompt
    /\ UNCHANGED <<request, analysisVars, libraryVars,
                   stage0, stage1, nutrition>>

\* runPizzaScript without its "Pizza analysis failed" throw
PizzaFailedOnThrowOnly(reply) == reply.net = "throw"

\* runPizzaScript throws: the call failed or its text does not parse
PizzaFailed(reply) ==
    reply.net = "throw" \/ ParseFailed(extractJson(ContentOf(reply)))

\* a variant that goes on to Stage 2 whatever the pizza script returned
PizzaReplyFallsThrough ==
    /\ pc = "pizza"
    /\ \E reply \in Answers(PizzaReplies) :
          /\ Record("pizza", reply)
          /\ ToStage2(stage1)
    /\ UNCHANGED <<request, analysisVars, libraryVars,
                   stage0, stage1, nutrition>>

\* the pizza call's reply: its 200 response, or Stage 2 if the script threw
PizzaReply ==
    /\ pc = "pizza"
    /\ \E reply \in Answers(PizzaReplies) :
          /\ Record("pizza", reply)
          /\ IF PizzaFailed(reply)
             THEN ToStage2(stage1)
             ELSE /\ Send(PizzaResponse(variant,
                              extractJson(ContentOf(reply)).v))
                  /\ UNCHANGED stage2Prompt
    /\ UNCHANGED <<request, analysisVars, libraryVars,
                   stage0, stage1, nutrition>>

\* the last step of the mixed-meal path
Finish(nut, friendlySummary) ==
    IF FinalResponseThrows(variant, stage1) THEN Reject
    ELSE Send(FinalResponse(variant, stage0, stage1, nut, friendlySummary))

\* Stage 2's reply: 500 if it does not parse; else Stage 3 if there is a
\* summary to rewrite, else the final response
Stage2Reply ==
    /\ pc = "stage2"
    /\ \E reply \in Answers(NutritionReplies) :
          /\ Record("stage2", reply)
          /\ IF reply.net = "throw"
             THEN Reject /\ UNCHANGED nutrition
             ELSE LET parsed == extractJson(ContentOf(reply))
                      nut == IF variant = "new"
                             THEN buildCompleteNutritionNew(parsed.v.nut)
                             ELSE buildCompleteNutritionSafe(parsed.v.nut)
                  IN IF ParseFailed(parsed)
                     THEN /\ Send(ErrorResponse(500, "stage2_error",
                                      "Failed to parse nutrition JSON"))
                          /\ UNCHANGED nutrition
                     ELSE IF variant # "chat" /\ stage1.summary # <<>>
                     THEN IssueCall("stage3") /\ nutrition' = nut
                     ELSE Finish(nut, stage1.summary) /\ nutrition' = nut
    /\ UNCHANGED <<request, analysisVars, libraryVars,
                   stage0, stage1, stage2Prompt>>

\* toneData.choices?.[0]?.message?.content?.trim(), "" if there is none
newTextOf(reply) == IF reply.net = "ok" THEN Trim(reply.text) ELSE <<>>

\* Stage 3's reply: the rewritten summary if there is one, then the final
\* response
Stage3Reply ==
    /\ pc = "stage3"
    /\ \E reply \in Answers(Stage3Replies) :
          /\ Record("stage3", reply)
          /\ Finish(nutrition, OrText(newTextOf(reply), stage1.summary))
    /\ UNCHANGED <<request, analysisVars, libraryVars,
                   stage0, stage1, stage2Prompt, nutrition>>

\* how an outbound call of an analysis request ended
Returned(c, how) == outcome' = [outcome EXCEPT ![c] = how]

\* res.status(500).json({ error: "Internal server error" })
InternalError == Send(ErrorResponse(500, "error", "Internal server error"))

\* res.status(200).json(result)
SendAnalysis == Send(OkResponse("analysis", AbsentNutrition, <<>>, <<>>))

\* a variant that authenticates before it looks at the method
AnalyzeStartAuthFirst ==
    /\ pc = "start"
    /\ variant \in AnalysisHandlers
    /\ IF token = "none"
       THEN Send(ErrorResponse(401, "auth", "Unauthorized"))
       ELSE IssueCall("auth")
    /\ UNCHANGED <<request, outcome, nutritionVars, analysisVars, libraryVars>>

\* face-analyze, body-analyze: the method check, then requireAuth up to
\* verifyIdToken
AnalyzeStart ==
    /\ pc = "start"
    /\ variant \in AnalysisHandlers
    /\ IF method # "POST"
       THEN Send(ErrorResponse(405, "method", "Method not allowed"))
       ELSE IF token = "none"
       THEN Send(ErrorResponse(401, "auth", "Unauthorized"))
       ELSE IssueCall("auth")
    /\ UNCHANGED <<request, outcome, nutritionVars, analysisVars, libraryVars>>

\* a variant whose handler goes on without looking at what requireAuth
\* returned
AuthReplyUnchecked ==
    /\ pc = "auth"
    /\ \E verified \in BOOLEAN :
          /\ Returned("auth", IF verified THEN "ok" ELSE "throw")
          /\ IF InvalidPayload(payload)
             THEN Send(ErrorResponse(400, "payload", "Invalid payload"))
             ELSE IssueCall("load")
    /\ UNCHANGED <<request, nutritionVars, analysisVars, libraryVars>>

\* verifyIdToken returns or throws; then the body is parsed, and the health
\* record is asked for
AuthReply ==
    /\ pc = "auth"
    /\ \E verified \in BOOLEAN :
          /\ Returned("auth", IF verified THEN "ok" ELSE "throw")
          /\ IF ~verified
             THEN Send(ErrorResponse(401, "auth", "Unauthorized"))
             ELSE IF InvalidPayload(payload)
             THEN Send(ErrorResponse(400, "payload", "Invalid payload"))
             ELSE IssueCall("load")
    /\ UNCHANGED <<request, nutritionVars, analysisVars, libraryVars>>

\* result = vision ?? build...Analysis(...), then the write is issued
ToPersist(v, record) ==
    /\ vision' = v
    /\ result' = IF v.ok THEN v.result
                 ELSE PlaceholderOf(variant, payload, record)
    /\ IssueCall("persist")

\* a variant in which a failed read ends either handler with 500
LoadReplyThrowing ==
    /\ pc = "load"
    /\ \E reply \in LoadReplies :
          /\ Returned("load", IF reply.failed THEN "throw" ELSE "ok")
          /\ IF reply.failed
             THEN InternalError /\ UNCHANGED <<healthRecord, vision, result>>
             ELSE /\ healthRecord' = reply.record
                  /\ IF ~hasKey
                     THEN ToPersist(NoVision, reply.record)
                     ELSE IssueCall("vision") /\ UNCHANGED <<vision, result>>
    /\ UNCHANGED <<request, nutritionVars, stored, libraryVars>>

\* loadHealthRecord: face-analyze lets a failed read throw into the
\* handler's catch, body-analyze takes it for no record; then
\* runVision...Analysis returns null without a key, or issues its call
LoadReply ==
    /\ pc = "load"
    /\ \E reply \in LoadReplies :
          /\ Returned("load", IF reply.failed THEN "throw" ELSE "ok")
          /\ IF reply.failed /\ variant = "face-analyze"
             THEN InternalError /\ UNCHANGED <<healthRecord, vision, result>>
             ELSE /\ healthRecord' = reply.record
                  /\ IF ~hasKey
                     THEN ToPersist(NoVision, reply.record)
                     ELSE IssueCall("vision") /\ UNCHANGED <<vision, result>>
    /\ UNCHANGED <<request, nutritionVars, stored, libraryVars>>

\* how the reply to the vision call reads
VisionOutcome(reply) ==
    CASE reply.net = "throw" -> "throw"
      [] reply.net = "notok" -> "notok"
      [] extractJson(ContentOf(reply)).j = "obj" -> "parsed"
      [] OTHER -> "unparsable"

\* the vision call: a rejected fetch (or resp.json()) goes to the handler's
\* catch, which answers 500 in face-analyze and starts over with the
\* placeholder in body-analyze
VisionReply ==
    /\ pc = "vision"
    /\ \E reply \in VisionReplies :
          /\ Returned("vision", VisionOutcome(reply))
          /\ IF reply.net = "throw"
             THEN /\ IF variant = "face-analyze" THEN InternalError
                     ELSE IssueCall("fallback_load")
                  /\ UNCHANGED <<vision, result>>
             ELSE ToPersist(VisionOf(variant, reply), healthRecord)
    /\ UNCHANGED <<request, nutritionVars, healthRecord, stored, libraryVars>>

\* persistFaceAnalysis lets a failed write throw into the handler's catch;
\* persistBodyAnalysis logs it and returns
PersistReply ==
    /\ pc = "persist"
    /\ \E written \in BOOLEAN :
          /\ Returned("persist", IF written THEN "ok" ELSE "throw")
          /\ stored' = IF written
                       THEN Document(payload, SourceTag(vision), result)
                       ELSE stored
          /\ IF ~written /\ variant = "face-analyze" THEN InternalError
             ELSE SendAnalysis
    /\ UNCHANGED <<request, nutritionVars, healthRecord, vision, result,
                   libraryVars>>

\* body-analyze's catch block: the record is read again and the
\* placeholder is built from it
FallbackLoadReply ==
    /\ pc = "fallback_load"
    /\ \E reply \in LoadReplies :
          /\ Returned("fallback_load", IF reply.failed THEN "throw" ELSE "ok")
          /\ healthRecord' = reply.record
          /\ result' = PlaceholderOf(variant, payload, reply.record)
          /\ IssueCall("fallback_persist")
    /\ UNCHANGED <<request, nutritionVars, vision, stored, libraryVars>>

\* the placeholder is written as such and returned
FallbackPersistReply ==
    /\ pc = "fallback_persist"
    /\ \E written \in BOOLEAN :
          /\ Returned("fallback_persist", IF written THEN "ok" ELSE "throw")
          /\ stored' = IF written
                       THEN Document(payload, "placeholder", result)
                       ELSE stored
          /\ SendAnalysis
    /\ UNCHANGED <<request, nutritionVars, healthRecord, vision, result,
                   libraryVars>>

Next ==
    \/ Start
    \/ Stage0Reply
    \/ BypassReply
    \/ Stage1Reply
    \/ Stage15Reply
    \/ PizzaReply
    \/ Stage2Reply
    \/ Stage3Reply
    \/ AnalyzeStart
    \/ AuthReply
    \/ LoadReply
    \/ VisionReply
    \/ PersistReply
    \/ FallbackLoadReply
    \/ FallbackPersistReply

Spec == Init /\ [][Next]_vars

(***************************************************************************)
(* The placeholder functions called on their own: every call draws its    *)
(* arguments from Arguments, and the call before it is remembered.        *)
(***************************************************************************)
ImageUrls == {<<"a", ".", "j", "p", "g">>, <<"b", ".", "j", "p", "g">>}

HealthScores == {0, 9, 60, 65, 72, 88}

\* two keys that are canonically equivalent: U+00E9, and e with U+0301
AccentKeys ==
    <<Entry(<<"U+00E9">>, NumberValue(1)),
      Entry(<<"e", "U+0301">>, NumberValue(2))>>

\* the entries in the opposite insertion order
Reversed(entries) ==
    [i \in DOMAIN entries |-> entries[Len(entries) + 1 - i]]

Todays ==
    {ObjectValue(<<DateEntry, Computed(h)>>) : h \in HealthScores}
        \cup {ObjectValue(<<Computed(h), DateEntry>>) : h \in HealthScores}
        \cup {ObjectValue(AccentKeys), ObjectValue(Reversed(AccentKeys))}

Arguments ==
    {[uid |-> Uid, imageUrl |-> url, today |-> today,
      history |-> ArrayValue(<<>>), healthRecord |-> NullValue] :
         url \in ImageUrls, today \in Todays}

\* the values of the two functions on the arguments
FaceAnalyses == [input \in Arguments |-> buildFaceAnalysis(input)]

BodyAnalyses == [input \in Arguments |-> buildBodyAnalysis(input)]

Call(function, input, output) ==
    [function |-> function, input |-> input, output |-> output]

InitAnalyses ==
    /\ variant = "lib/longevity"
    /\ method = "POST"
    /\ hasKey = FALSE
    /\ description = <<>>
    /\ photoUrl = "none"
    /\ token = "none"
    /\ payload = GoodBody
    /\ Idle
    /\ analysis = NoAnalysis
    /\ previous = NoAnalysis

CallFaceAnalysis ==
    /\ \E input \in Arguments :
          analysis' = Call("buildFaceAnalysis", input, FaceAnalyses[input])
    /\ previous' = analysis
    /\ UNCHANGED <<request, pc, calls, outcome, resp, nResp, nutritionVars,
                   analysisVars, applied, storeVars>>

CallBodyAnalysis ==
    /\ \E input \in Arguments :
          analysis' = Call("buildBodyAnalysis", input, BodyAnalyses[input])
    /\ previous' = analysis
    /\ UNCHANGED <<request, pc, calls, outcome, resp, nResp, nutritionVars,
                   analysisVars, applied, storeVars>>

NextAnalyses ==
    \/ CallFaceAnalysis
    \/ CallBodyAnalysis

Analyses == InitAnalyses /\ [][NextAnalyses]_vars

(***************************************************************************)
(* api/longevity/body-analyze.ts: the edibility guard of the barcode        *)
(* lookup. Strings are sequences of code units as in lib/longevity.ts.     *)
(***************************************************************************)
BLOCK_COSMETIC ==
    {<<"s", "u", "n", "s", "c", "r", "e", "e", "n">>, <<"s", "p", "f">>,
     <<"s", "u", "n", " ", "s", "c", "r", "e", "e", "n">>, <<"u", "v">>,
     <<"b", "r", "o", "a", "d", " ", "s", "p", "e", "c", "t", "r", "u", "m">>,
     <<"m", "o", "i", "s", "t", "u", "r", "i", "z", "e", "r">>,
     <<"c", "l", "e", "a", "n", "s", "e", "r">>, <<"s", "e", "r", "u", "m">>,
     <<"r", "e", "t", "i", "n", "o", "l">>,
     <<"n", "i", "a", "c", "i", "n", "a", "m", "i", "d", "e">>,
     <<"h", "y", "a", "l", "u", "r", "o", "n", "i", "c">>, <<"c", "r", "e", "a", "m">>,
     <<"l", "o", "t", "i", "o", "n">>, <<"o", "i", "n", "t", "m", "e", "n", "t">>,
     <<"b", "a", "l", "m">>, <<"m", "a", "s", "k">>, <<"p", "e", "e", "l">>,
     <<"e", "x", "f", "o", "l", "i", "a", "n", "t">>, <<"s", "k", "i", "n">>,
     <<"f", "a", "c", "e">>, <<"b", "o", "d", "y">>, <<"s", "h", "a", "m", "p", "o", "o">>,
     <<"c", "o", "n", "d", "i", "t", "i", "o", "n", "e", "r">>, <<"h", "a", "i", "r">>,
     <<"d", "e", "o", "d", "o", "r", "a", "n", "t">>,
     <<"a", "n", "t", "i", "p", "e", "r", "s", "p", "i", "r", "a", "n", "t">>,
     <<"m", "a", "k", "e", "u", "p">>, <<"c", "o", "s", "m", "e", "t", "i", "c">>,
     <<"f", "r", "a", "g", "r", "a", "n", "c", "e">>, <<"p", "a", "r", "f", "u", "m">>,
     <<"p", "e", "r", "f", "u", "m", "e">>, <<"a", "f", "t", "e", "r", "s", "h", "a", "v", "e">>,
     <<"l", "i", "p", "s", "t", "i", "c", "k">>, <<"l", "i", "p", " ", "b", "a", "l", "m">>}

BLOCK_HOUSEHOLD ==
    {<<"d", "e", "t", "e", "r", "g", "e", "n", "t">>, <<"b", "l", "e", "a", "c", "h">>,
     <<"d", "i", "s", "i", "n", "f", "e", "c", "t", "a", "n", "t">>,
     <<"c", "l", "e", "a", "n", "e", "r">>,
     <<"d", "i", "s", "h", "w", "a", "s", "h", "i", "n", "g">>,
     <<"l", "a", "u", "n", "d", "r", "y">>,
     <<"f", "a", "b", "r", "i", "c", " ", "s", "o", "f", "t", "e", "n", "e", "r">>,
     <<"a", "i", "r", " ", "f", "r", "e", "s", "h", "e", "n", "e", "r">>,
     <<"i", "n", "s", "e", "c", "t", "i", "c", "i", "d", "e">>,
     <<"r", "e", "p", "e", "l", "l", "e", "n", "t">>,
     <<"t", "r", "a", "s", "h", " ", "b", "a", "g">>,
     <<"a", "l", "u", "m", "i", "n", "u", "m", " ", "f", "o", "i", "l">>,
     <<"f", "o", "o", "d", " ", "w", "r", "a", "p">>, <<"z", "i", "p", " ", "b", "a", "g">>}

BLOCK_CONTAINER ==
    {<<"r", "e", "f", "i", "l", "l", "a", "b", "l", "e">>,
     <<"r", "e", "u", "s", "a", "b", "l", "e">>, <<"s", "t", "a", "i", "n", "l", "e", "s", "s">>,
     <<"p", "l", "a", "s", "t", "i", "c">>, <<"m", "e", "t", "a", "l">>,
     <<"g", "l", "a", "s", "s">>, <<"f", "l", "a", "s", "k">>,
     <<"t", "u", "m", "b", "l", "e", "r">>, <<"t", "h", "e", "r", "m", "o", "s">>,
     <<"w", "a", "t", "e", "r", " ", "b", "o", "t", "t", "l", "e">>,
     <<"s", "p", "o", "r", "t", "s", " ", "b", "o", "t", "t", "l", "e">>, <<"m", "u", "g">>,
     <<"c", "o", "n", "t", "a", "i", "n", "e", "r">>, <<"j", "a", "r">>, <<"l", "i", "d">>}

BLOCK_CHEMICAL ==
    {<<"a", "l", "c", "o", "h", "o", "l", " ", "d", "e", "n", "a", "t">>,
     <<"b", "e", "n", "z", "e", "n", "e">>, <<"s", "u", "l", "f", "a", "t", "e">>,
     <<"h", "y", "d", "r", "o", "x", "i", "d", "e">>, <<"c", "h", "l", "o", "r", "i", "d", "e">>,
     <<"t", "i", "t", "a", "n", "i", "u", "m", " ", "d", "i", "o", "x", "i", "d", "e">>,
     <<"z", "i", "n", "c", " ", "o", "x", "i", "d", "e">>,
     <<"s", "i", "l", "i", "c", "o", "n", "e">>,
     <<"p", "o", "l", "y", "e", "t", "h", "y", "l", "e", "n", "e">>,
     <<"p", "o", "l", "y", "p", "r", "o", "p", "y", "l">>,
     <<"a", "c", "r", "y", "l", "a", "t", "e">>, <<"c", "o", "p", "o", "l", "y", "m", "e", "r">>}

PET_NONFOOD ==
    {<<"c", "a", "t", " ", "l", "i", "t", "t", "e", "r">>,
     <<"d", "o", "g", " ", "s", "h", "a", "m", "p", "o", "o">>, <<"f", "l", "e", "a">>,
     <<"t", "i", "c", "k", " ", "c", "o", "l", "l", "a", "r">>}

FOOD_HINTS ==
    {<<"s", "u", "g", "a", "r">>, <<"s", "a", "l", "t">>, <<"w", "h", "e", "a", "t">>,
     <<"r", "i", "c", "e">>, <<"m", "i", "l", "k">>, <<"c", "r", "e", "a", "m">>,
     <<"b", "u", "t", "t", "e", "r">>, <<"e", "g", "g">>, <<"y", "e", "a", "s", "t">>,
     <<"c", "o", "c", "o", "a">>, <<"c", "h", "o", "c", "o", "l", "a", "t", "e">>,
     <<"v", "a", "n", "i", "l", "l", "a">>, <<"f", "l", "o", "u", "r">>, <<"s", "o", "y">>,
     <<"p", "e", "a", "n", "u", "t">>, <<"a", "l", "m", "o", "n", "d">>,
     <<"h", "a", "z", "e", "l", "n", "u", "t">>, <<"o", "l", "i", "v", "e">>,
     <<"s", "u", "n", "f", "l", "o", "w", "e", "r">>, <<"g", "a", "r", "l", "i", "c">>,
     <<"o", "n", "i", "o", "n">>, <<"t", "o", "m", "a", "t", "o">>, <<"a", "p", "p", "l", "e">>,
     <<"b", "a", "n", "a", "n", "a">>, <<"s", "t", "r", "a", "w", "b", "e", "r", "r", "y">>,
     <<"m", "e", "a", "t">>, <<"f", "i", "s", "h">>, <<"c", "h", "i", "c", "k", "e", "n">>,
     <<"p", "a", "s", "t", "a">>, <<"s", "n", "a", "c", "k">>, <<"c", "h", "i", "p", "s">>,
     <<"p", "r", "o", "t", "e", "i", "n">>, <<"b", "a", "r">>,
     <<"s", "n", "a", "c", "k", " ", "b", "a", "r">>,
     <<"p", "r", "o", "t", "e", "i", "n", " ", "b", "a", "r">>,
     <<"e", "n", "e", "r", "g", "y", " ", "b", "a", "r">>, <<"g", "r", "a", "n", "o", "l", "a">>,
     <<"c", "e", "r", "e", "a", "l">>, <<"b", "r", "e", "a", "d">>, <<"o", "a", "t", "s">>,
     <<"b", "u", "i", "l", "d", "e", "r">>}

SUPPLEMENT_HINTS ==
    {<<"p", "o", "w", "d", "e", "r">>, <<"w", "h", "e", "y">>, <<"c", "a", "s", "e", "i", "n">>,
     <<"i", "s", "o", "l", "a", "t", "e">>,
     <<"c", "o", "n", "c", "e", "n", "t", "r", "a", "t", "e">>,
     <<"m", "a", "s", "s", " ", "g", "a", "i", "n", "e", "r">>, <<"g", "a", "i", "n", "e", "r">>,
     <<"c", "o", "l", "l", "a", "g", "e", "n">>,
     <<"p", "e", "a", " ", "p", "r", "o", "t", "e", "i", "n">>,
     <<"s", "o", "y", " ", "p", "r", "o", "t", "e", "i", "n">>,
     <<"p", "l", "a", "n", "t", " ", "p", "r", "o", "t", "e", "i", "n">>,
     <<"c", "r", "e", "a", "t", "i", "n", "e">>, <<"b", "c", "a", "a">>,
     <<"b", "r", "a", "n", "c", "h", "e", "d", " ", "c", "h", "a", "i", "n", " ", "a", "m", "i", "n", "o", " ", "a", "c", "i", "d", "s">>,
     <<"e", "l", "e", "c", "t", "r", "o", "l", "y", "t", "e">>,
     <<"p", "r", "e", "-", "w", "o", "r", "k", "o", "u", "t">>,
     <<"p", "o", "s", "t", "-", "w", "o", "r", "k", "o", "u", "t">>}

BEVERAGE_HINTS ==
    {<<"d", "r", "i", "n", "k">>, <<"j", "u", "i", "c", "e">>, <<"w", "a", "t", "e", "r">>,
     <<"m", "i", "n", "e", "r", "a", "l", " ", "w", "a", "t", "e", "r">>,
     <<"s", "p", "r", "i", "n", "g", " ", "w", "a", "t", "e", "r">>,
     <<"s", "p", "a", "r", "k", "l", "i", "n", "g">>, <<"s", "o", "d", "a">>,
     <<"c", "o", "l", "a">>, <<"e", "n", "e", "r", "g", "y", " ", "d", "r", "i", "n", "k">>,
     <<"s", "p", "o", "r", "t", "s", " ", "d", "r", "i", "n", "k">>, <<"t", "e", "a">>,
     <<"c", "o", "f", "f", "e", "e">>, <<"s", "m", "o", "o", "t", "h", "i", "e">>}

FOOD_CATEGORY_TAG_HINTS ==
    {<<"e", "n", ":", "s", "n", "a", "c", "k", "s">>,
     <<"e", "n", ":", "s", "n", "a", "c", "k", "-", "b", "a", "r", "s">>,
     <<"e", "n", ":", "p", "r", "o", "t", "e", "i", "n", "-", "b", "a", "r", "s">>,
     <<"e", "n", ":", "n", "u", "t", "r", "i", "t", "i", "o", "n", "-", "b", "a", "r", "s">>,
     <<"e", "n", ":", "p", "r", "o", "t", "e", "i", "n", "-", "s", "u", "p", "p", "l", "e", "m", "e", "n", "t", "s">>,
     <<"e", "n", ":", "b", "r", "e", "a", "k", "f", "a", "s", "t", "-", "c", "e", "r", "e", "a", "l", "s">>,
     <<"e", "n", ":", "b", "e", "v", "e", "r", "a", "g", "e", "s">>,
     <<"e", "n", ":", "m", "e", "a", "l", "s">>}

\* ["bottled water","spring water","mineral water","drinking water"]
DrinkingWaters ==
    {<<"b", "o", "t", "t", "l", "e", "d", " ", "w", "a", "t", "e", "r">>,
     <<"s", "p", "r", "i", "n", "g", " ", "w", "a", "t", "e", "r">>,
     <<"m", "i", "n", "e", "r", "a", "l", " ", "w", "a", "t", "e", "r">>,
     <<"d", "r", "i", "n", "k", "i", "n", "g", " ", "w", "a", "t", "e", "r">>}

\* (protein|energy|nutrition|builder)
BarKinds ==
    {<<"p", "r", "o", "t", "e", "i", "n">>, <<"e", "n", "e", "r", "g", "y">>,
     <<"n", "u", "t", "r", "i", "t", "i", "o", "n">>, <<"b", "u", "i", "l", "d", "e", "r">>}

UpperCase ==
    <<"A", "B", "C", "D", "E", "F", "G", "H", "I", "J", "K", "L", "M",
      "N", "O", "P", "Q", "R", "S", "T", "U", "V", "W", "X", "Y", "Z">>

LowerCase ==
    <<"a", "b", "c", "d", "e", "f", "g", "h", "i", "j", "k", "l", "m",
      "n", "o", "p", "q", "r", "s", "t", "u", "v", "w", "x", "y", "z">>

\* s.toLowerCase()
LowerCased(chars) ==
    [i \in DOMAIN chars |->
        IF \E k \in DOMAIN UpperCase : UpperCase[k] = chars[i]
        THEN LowerCase[CHOOSE k \in DOMAIN UpperCase : UpperCase[k] = chars[i]]
        ELSE chars[i]]

\* needle stands in chars at position i
MatchAt(chars, i, needle) ==
    /\ i >= 1
    /\ i + Len(needle) - 1 <= Len(chars)
    /\ SubSeq(chars, i, i + Len(needle) - 1) = needle

\* chars.includes(needle)
Contains(chars, needle) == \E i \in 1..Len(chars) + 1 : MatchAt(chars, i, needle)

\* includesAny(s, arr)
includesAny(s, arr) == \E w \in arr : Contains(LowerCased(s), w)

\* arrayIncludesAny(arr, needles)
arrayIncludesAny(arr, needles) ==
    \E n \in needles : \E t \in DOMAIN arr : Contains(LowerCased(arr[t]), n)

\* \w, and \b before position i of chars (Len + 1: the end)
IsWordChar(c) ==
    \/ \E k \in DOMAIN LowerCase : c = LowerCase[k] \/ c = UpperCase[k]
    \/ c \in Digits
    \/ c = "_"

WordAt(chars, i) == i >= 1 /\ i <= Len(chars) /\ IsWordChar(chars[i])

Boundary(chars, i) == WordAt(chars, i - 1) # WordAt(chars, i)

\* /\b(protein|energy|nutrition|builder)\s*bar\b/.test(hay)
hasBarRegex(hay) ==
    \E i \in 1..Len(hay) : \E kind \in BarKinds :
        /\ Boundary(hay, i)
        /\ MatchAt(hay, i, kind)
        /\ MatchAt(hay, SkipSpace(hay, i + Len(kind)), <<"b", "a", "r">>)
        /\ Boundary(hay, SkipSpace(hay, i + Len(kind)) + 3)

\* /\b(bar|snack|nutrition)\b/.test(hay)
hasBarWord(hay) ==
    \E i \in 1..Len(hay) :
        \E w \in {<<"b", "a", "r">>, <<"s", "n", "a", "c", "k">>,
                  <<"n", "u", "t", "r", "i", "t", "i", "o", "n">>} :
            Boundary(hay, i) /\ MatchAt(hay, i, w) /\ Boundary(hay, i + Len(w))

\* the positions i..j of chars hold digits, at least one
DigitsAt(chars, i, j) ==
    i <= j /\ j <= Len(chars) /\ \A k \in i..j : chars[k] \in Digits

\* /\bspf\s?\d{1,3}\b/.test(hay)
hasSpfNumber(hay) ==
    \E i \in 1..Len(hay) : \E gap \in {0, 1} : \E n \in 1..3 :
        /\ Boundary(hay, i)
        /\ MatchAt(hay, i, <<"s", "p", "f">>)
        /\ gap = 1 => i + 3 <= Len(hay) /\ IsSpace(hay[i + 3])
        /\ DigitsAt(hay, i + 3 + gap, i + 2 + gap + n)
        /\ Boundary(hay, i + 3 + gap + n)

\* servingSize.match(/\b(\d+(\.\d+)?)\s*(g|ml)\b/i)
hasUnitsIn(servingSize) ==
    LET size == LowerCased(servingSize)
        UnitAfter(j) ==
            \E unit \in {<<"g">>, <<"m", "l">>} :
                /\ MatchAt(size, SkipSpace(size, j), unit)
                /\ Boundary(size, SkipSpace(size, j) + Len(unit))
    IN \E i \in 1..Len(size) : \E j \in i..Len(size) :
          /\ Boundary(size, i)
          /\ DigitsAt(size, i, j)
          /\ \/ UnitAfter(j + 1)
             \/ /\ MatchAt(size, j + 1, <<".">>)
                /\ \E k \in j + 2..Len(size) :
                      DigitsAt(size, j + 2, k) /\ UnitAfter(k + 1)

\* plausibleNutrition(n): nutriments are absent (<<>>), or the four values
\* energy-kcal_100g, proteins_100g, carbohydrates_100g, fat_100g
plausibleNutrition(n) ==
    \E i \in DOMAIN n : ToNumeric(n[i]).fin /\ ToNumeric(n[i]).n > 0

\* isReusableContainer(name, categories)
isReusableContainer(name, categories) ==
    LET hay == LowerCased(name \o <<" ">> \o categories)
    IN /\ \/ Contains(hay, <<"w", "a", "t", "e", "r", " ", "b", "o", "t", "t", "l", "e">>)
          \/ includesAny(hay, BLOCK_CONTAINER)
       /\ ~includesAny(hay, DrinkingWaters)

\* hasStrongFoodEvidence({ hay, nutriments, categoriesTags, servingSize })
hasStrongFoodEvidence(hay, nutriments, categoriesTags, servingSize) ==
    \/ hasBarRegex(hay)
    \/ includesAny(hay, FOOD_HINTS)
    \/ includesAny(hay, SUPPLEMENT_HINTS)
    \/ includesAny(hay, BEVERAGE_HINTS)
    \/ includesAny(hay, {<<"b", "a", "r">>, <<"s", "n", "a", "c", "k">>,
                         <<"n", "u", "t", "r", "i", "t", "i", "o", "n", " ", "b", "a", "r">>})
    \/ arrayIncludesAny(categoriesTags, FOOD_CATEGORY_TAG_HINTS)
    \/ hasUnitsIn(servingSize)
    \/ plausibleNutrition(nutriments)

\* a variant that looks for cosmetic keywords only
BlockedCosmeticOnly(hay) == includesAny(hay, BLOCK_COSMETIC)

\* hasCosmetic || hasHousehold || hasChemical
Blocked(hay) ==
    \/ includesAny(hay, BLOCK_COSMETIC)
    \/ includesAny(hay, BLOCK_HOUSEHOLD)
    \/ includesAny(hay, BLOCK_CHEMICAL)

\* isClearlyBar
isClearlyBar(hay) ==
    \/ hasBarRegex(hay)
    \/ includesAny(hay, {kind \o <<" ", "b", "a", "r">> : kind \in BarKinds})

\* a variant that rejects on a keyword alone
NonFoodRejectionOnKeyword(clearlyBar, blocked, strongFood) == blocked

\* !isClearlyBar && (hasCosmetic || hasHousehold || hasChemical) && !strongFood
NonFoodRejection(clearlyBar, blocked, strongFood) ==
    ~clearlyBar /\ blocked /\ ~strongFood

Verdict(isEdible, reason) == [isEdible |-> isEdible, reason |-> reason]

\* [name, brand, categories, servingSize].join(" ").toLowerCase()
HayOf(product) ==
    LowerCased(Join(<<product.name, product.brand, product.categories,
                      product.servingSize>>, <<" ">>))

\* the score guardEdible adds up
EdibleScore(product) ==
    LET hay == HayOf(product)
    IN (IF hasBarRegex(hay) THEN 3 ELSE 0)
       + (IF includesAny(hay, SUPPLEMENT_HINTS) THEN 2 ELSE 0)
       + (IF includesAny(hay, BEVERAGE_HINTS) THEN 2 ELSE 0)
       + (IF includesAny(hay, FOOD_HINTS) THEN 2 ELSE 0)
       + (IF plausibleNutrition(product.nutriments) THEN 3 ELSE 0)
       + (IF arrayIncludesAny(product.categoriesTags, FOOD_CATEGORY_TAG_HINTS)
          THEN 3 ELSE 0)
       + (IF includesAny(hay, DrinkingWaters) THEN 3 ELSE 0)
       - (IF Contains(hay, <<"o", "i", "l">>)
               /\ includesAny(hay, {<<"s", "k", "i", "n">>, <<"h", "a", "i", "r">>,
                                    <<"b", "o", "d", "y">>, <<"f", "a", "c", "e">>})
          THEN 3 ELSE 0)
       - (IF hasSpfNumber(hay) THEN 4 ELSE 0)

\* a variant that decides by the score alone
guardEdibleByScore(product) ==
    IF EdibleScore(product) >= 3
    THEN Verdict(TRUE, "sufficient edible evidence")
    ELSE Verdict(FALSE, "insufficient edible evidence")

\* guardEdible
guardEdible(product) ==
    LET hay == HayOf(product)
        score == EdibleScore(product)
    IN IF includesAny(hay, PET_NONFOOD) THEN Verdict(FALSE, "pet product")
       ELSE IF isReusableContainer(product.name, product.categories)
       THEN Verdict(FALSE, "reusable container")
       ELSE IF NonFoodRejection(isClearlyBar(hay), Blocked(hay),
                    hasStrongFoodEvidence(hay, product.nutriments,
                        product.categoriesTags, product.servingSize))
       THEN Verdict(FALSE, "cosmetic/chemical/household product")
       ELSE IF includesAny(hay, SUPPLEMENT_HINTS) /\ score >= 2
       THEN Verdict(TRUE, "supplement/powder evidence")
       ELSE IF /\ \/ hasBarWord(hay)
                  \/ arrayIncludesAny(product.categoriesTags,
                         {<<"e", "n", ":", "s", "n", "a", "c", "k", "-", "b", "a", "r", "s">>,
                          <<"e", "n", ":", "p", "r", "o", "t", "e", "i", "n", "-", "b", "a", "r", "s">>})
               /\ score >= 2
       THEN Verdict(TRUE, "bar/snack evidence")
       ELSE IF score >= 3 THEN Verdict(TRUE, "sufficient edible evidence")
       ELSE Verdict(FALSE, "insufficient edible evidence")

\* the products looked up
ProductNames ==
    {<<"S", "P", "F", " ", "5", "0", " ", "S", "u", "n", "s", "c", "r", "e", "e", "n">>,
     <<"P", "r", "e", "m", "i", "e", "r", " ", "P", "r", "o", "t", "e", "i", "n", " ", "B", "a", "r">>,
     <<"D", "o", "g", " ", "S", "h", "a", "m", "p", "o", "o">>,
     <<"P", "r", "o", "t", "e", "i", "n", " ", "B", "a", "r", " ", "B", "o", "d", "y", " ", "L", "o", "t", "i", "o", "n">>,
     <<"S", "h", "a", "m", "p", "o", "o">>, <<"F", "a", "c", "e", " ", "C", "r", "e", "a", "m">>,
     <<"B", "l", "e", "a", "c", "h">>,
     <<"P", "l", "a", "s", "t", "i", "c", " ", "S", "h", "a", "m", "p", "o", "o", " ", "B", "o", "t", "t", "l", "e">>,
     <<"O", "a", "t", " ", "M", "i", "l", "k">>,
     <<"H", "a", "i", "r", " ", "S", "e", "r", "u", "m">>,
     <<"E", "n", "e", "r", "g", "y", "b", "a", "r", " ", "Z", "i", "n", "c", " ", "O", "x", "i", "d", "e">>,
     <<"B", "a", "r", "l", "e", "y", " ", "S", "o", "a", "p">>,
     <<"W", "h", "e", "y", " ", "I", "s", "o", "l", "a", "t", "e">>,
     <<"C", "o", "l", "l", "a", "g", "e", "n", " ", "O", "i", "l">>,
     <<"E", "l", "e", "c", "t", "r", "o", "l", "y", "t", "e", " ", "S", "P", "F", " ", "5", "0">>}

\* the category tags, serving sizes and nutriments a product may come with
ProductTags == {<<>>, <<<<"e", "n", ":", "p", "r", "o", "t", "e", "i", "n", "-", "b", "a", "r", "s">>>>}

ServingSizes == {<<>>, <<"3", "0", " ", "g">>}

Nutriments == {<<>>, <<Num(2000), Undef, BadStr, Num(0)>>}

ProductCategories == {<<>>, <<"S", "k", "i", "n", " ", "c", "a", "r", "e">>}

Products ==
    [name : ProductNames, brand : {<<>>}, categories : ProductCategories,
     categoriesTags : ProductTags, servingSize : ServingSizes,
     nutriments : Nutriments]

Verdicts == [product \in Products |-> guardEdible(product)]

(***************************************************************************)
(* unnamed/part_001: the meal-plan assistant. What the handler derives     *)
(* from the conversation history and the preferences before it asks the    *)
(* model: the fields already asked about, the questions counted, the       *)
(* preferences still missing and whether the final plan is forced.         *)
(***************************************************************************)
\* the longest history drawn
MaxHistory == 5

Item(role, content) == [role |-> role, content |-> content]

\* the assistant items of the history; a history that is no array has none
AssistantItems(history) ==
    IF history.type = "array"
    THEN SelectSeq(history.items, LAMBDA item : item.role = "assistant")
    ELSE <<>>

\* .map(content).join(" ").toLowerCase()
RECURSIVE JoinedContent(_)
JoinedContent(items) ==
    IF items = <<>> THEN <<>>
    ELSE IF Len(items) = 1 THEN LowerCased(items[1].content)
    ELSE LowerCased(items[1].content) \o <<" ">> \o JoinedContent(Tail(items))

AskedNeedles ==
    [allergies |-> {<<"a", "l", "l", "e", "r", "g">>},
     eating_mode |-> {<<"e", "a", "t", "i", "n", "g", " ", "m", "o", "d", "e">>, <<"d", "i", "e", "t">>, <<"o", "m", "n", "i", "v", "o", "r", "e">>, <<"v", "e", "g", "e", "t", "a", "r", "i", "a", "n">>, <<"v", "e", "g", "a", "n">>},
     cooking_style |-> {<<"c", "o", "o", "k", "i", "n", "g", " ", "s", "t", "y", "l", "e">>, <<"c", "o", "o", "k">>},
     cultural_foods |-> {<<"c", "u", "l", "t", "u", "r", "a", "l">>, <<"c", "u", "i", "s", "i", "n", "e">>, <<"m", "i", "d", "d", "l", "e", " ", "e", "a", "s", "t", "e", "r", "n">>, <<"m", "e", "d", "i", "t", "e", "r", "r", "a", "n", "e", "a", "n">>, <<"a", "s", "i", "a", "n">>}]

\* getAskedPreferenceFields(history)
getAskedPreferenceFields(history) ==
    LET text == JoinedContent(AssistantItems(history))
    IN  {field \in DOMAIN AskedNeedles :
            \E needle \in AskedNeedles[field] : Contains(text, needle)}
        \cup (IF Contains(text, <<"p", "r", "o", "t", "e", "i", "n">>) /\ Contains(text, <<"g", "a", "p">>)
              THEN {"protein_gap"} ELSE {})

\* text.includes("?") || text.includes("؟")
HasQuestionMark(content) ==
    Contains(content, <<"?">>) \/ Contains(content, <<"U+061F">>)

\* getAssistantQuestionCount(history)
getAssistantQuestionCount(history) ==
    Len(SelectSeq(AssistantItems(history),
                  LAMBDA item : HasQuestionMark(item.content)))

\* the matchers written in Latin letters; the histories drawn here hold no
\* character of the other six
allergyMatchers == {<<"a", "l", "l", "e", "r", "g">>, <<"a", "l", "e", "r", "g">>, <<"a", "l", "l", "e", "r", "g", "i", "e">>, <<"a", "l", "e", "r", "j", "i">>}

\* getAllergyQuestionCount(history)
getAllergyQuestionCount(history) ==
    Len(SelectSeq(AssistantItems(history),
                  LAMBDA item :
                      /\ HasQuestionMark(item.content)
                      /\ \E matcher \in allergyMatchers :
                            Contains(LowerCased(item.content), matcher)))

\* a ?? b
Coalesce(a, b) == IF a.type \in {"undefined", "null"} THEN b ELSE a

\* Boolean(value)
Truthiness(value) ==
    CASE value.type \in {"undefined", "null"} -> FALSE
      [] value.type = "string" -> value.chars # <<>>
      [] value.type = "number" -> value.n # 0
      [] OTHER -> TRUE

\* effectiveUserPreferences?.[key]
PreferenceOf(effectiveUserPreferences, key) ==
    IF effectiveUserPreferences.type \in {"undefined", "null"}
    THEN UndefinedValue
    ELSE Get(effectiveUserPreferences, key)

\* combinedAllergies
combinedAllergiesOf(userAllergies, effectiveUserPreferences) ==
    IF userAllergies.type = "string" /\ trimmed(userAllergies.chars) # <<>>
    THEN StringValue(trimmed(userAllergies.chars))
    ELSE Coalesce(PreferenceOf(effectiveUserPreferences, "allergies"),
                  StringValue(<<>>))

requiredPreferenceFields ==
    <<"allergies", "eating_mode", "cooking_style", "cultural_foods">>

\* missingPreferences
missingPreferencesOf(combinedAllergies, effectiveUserPreferences) ==
    SelectSeq(requiredPreferenceFields,
              LAMBDA field :
                  IF field = "allergies" THEN ~Truthiness(combinedAllergies)
                  ELSE LET value == PreferenceOf(effectiveUserPreferences, field)
                       IN  \/ value.type \in {"undefined", "null"}
                           \/ value = StringValue(<<>>))

\* missingPreferencesFiltered
missingPreferencesFilteredOf(missingPreferences, allowNonAllergyQuestions, askedFields) ==
    SelectSeq(missingPreferences,
              LAMBDA field :
                  IF field = "allergies" THEN TRUE
                  ELSE IF ~allowNonAllergyQuestions THEN FALSE
                  ELSE field \notin askedFields)

\* shouldForcePlan with the allergies answer not asked for
shouldForcePlanWithoutAnswer(isMealPlanMode, missingPreferencesFiltered, allowNonAllergyQuestions, hasAllergiesAnswer) ==
    /\ isMealPlanMode
    /\ (missingPreferencesFiltered = <<>> \/ ~allowNonAllergyQuestions)

\* shouldForcePlan
shouldForcePlanOf(isMealPlanMode, missingPreferencesFiltered, allowNonAllergyQuestions, hasAllergiesAnswer) ==
    /\ isMealPlanMode
    /\ (missingPreferencesFiltered = <<>> \/ ~allowNonAllergyQuestions)
    /\ hasAllergiesAnswer

ForcePlanMessage ==
    "All required questions are answered. Do NOT ask any more questions. Output the FINAL meal plan JSON now."

\* the handler from the fields asked about and the questions counted to the
\* system messages pushed
PlanDecision(body, askedFields, totalQuestionCount, allergyQuestionCount) ==
    LET effectiveUserPreferences == Coalesce(body.userPreferences, body.preferences)
        combinedAllergies ==
            combinedAllergiesOf(body.userAllergies, effectiveUserPreferences)
        missingPreferences ==
            missingPreferencesOf(combinedAllergies, effectiveUserPreferences)
        nonAllergyQuestionCount ==
            IF totalQuestionCount - allergyQuestionCount > 0
            THEN totalQuestionCount - allergyQuestionCount ELSE 0
        allowNonAllergyQuestions == nonAllergyQuestionCount < 5
        missingPreferencesFiltered ==
            missingPreferencesFilteredOf(missingPreferences,
                                         allowNonAllergyQuestions, askedFields)
        hasAllergiesAnswer == Truthiness(combinedAllergies)
        shouldForcePlan ==
            shouldForcePlanOf(body.mode = "meal_plan", missingPreferencesFiltered,
                              allowNonAllergyQuestions, hasAllergiesAnswer)
    IN  [askedFields |-> askedFields,
         nonAllergyQuestionCount |-> nonAllergyQuestionCount,
         missingPreferencesFiltered |-> missingPreferencesFiltered,
         shouldForcePlan |-> shouldForcePlan,
         systemMessages |-> IF shouldForcePlan THEN {ForcePlanMessage} ELSE {}]

(***************************************************************************)
(* The helper functions applied on their own to the inputs drawn here.     *)
(***************************************************************************)
Fence == <<Backtick, Backtick, Backtick>>

\* {"a":1}
ObjectChars == <<"{", "\"", "a", "\"", ":", "1", "}">>

\* {"a":"```1```"}
FenceInString ==
    <<"{", "\"", "a", "\"", ":", "\"">> \o Fence \o <<"1">> \o Fence \o <<"\"", "}">>

\* what a fenced block or a message may hold: JSON objects, other JSON
\* values, broken JSON, nothing
Snippets ==
    {ObjectChars,
     FenceInString,
     <<"{", "}">>,
     <<"{", " ", "\"", "a", "\"", ":", "[", "1", "0", ",", "n", "u", "l", "l", "]", " ", "}">>,
     <<"[", "1", "]">>,
     <<"[">> \o ObjectChars \o <<"]">>,
     <<"5">>,
     <<"0">>,
     <<"0", "1">>,
     <<"\"", "x", "\"">>,
     <<"n", "u", "l", "l">>,
     <<"{", "\"", "a", "\"", ":">>,
     <<"{", "\"", "a", "\"", ":", "1", ",", "}">>,
     <<"h", "i">>,
     <<>>}

\* a snippet as it is, in a fenced block, or in a fenced block tagged json
Blocks ==
    Snippets
    \cup {Fence \o s \o Fence : s \in Snippets}
    \cup {Fence \o <<"j", "s", "o", "n", "\n">> \o s \o <<"\n">> \o Fence :
            s \in Snippets}

\* the texts handed to extractJson: a block, with or without words before
\* it, and with or without an object or a brace after it
Texts ==
    {before \o block \o after :
        before \in {<<>>, <<"h", "i", ":", " ">>},
        block \in Blocks,
        after \in {<<>>, <<" ", "{", "\"", "b", "\"", ":", "2", "}">>, <<" ", "}">>}}

Extractions == [text \in Texts |-> extractJsonOf(text)]

InitHelpers ==
    /\ variant = "helpers"
    /\ method = "POST"
    /\ hasKey = FALSE
    /\ description = <<>>
    /\ photoUrl = "none"
    /\ token = "none"
    /\ payload = GoodBody
    /\ Idle
    /\ analysis = NoAnalysis
    /\ previous = NoAnalysis

\* one helper is applied to one input in a behaviour
\* extractJson(text)
ApplyExtractJson ==
    /\ applied.function = "none"
    /\ \E text \in Texts :
          applied' = Call("extractJson", text, Extractions[text])
    /\ UNCHANGED <<request, pc, calls, outcome, resp, nResp, nutritionVars,
                   analysisVars, analysis, previous, storeVars>>

\* extractJson(JSON.stringify(v)) of a value v that extractJson returned
ExtractStringified ==
    /\ applied.function = "extractJson"
    /\ applied.output # NullValue
    /\ applied' = Call("extractJson(JSON.stringify)", applied.output,
                       extractJsonOf(JSONstringify(applied.output)))
    /\ UNCHANGED <<request, pc, calls, outcome, resp, nResp, nutritionVars,
                   analysisVars, analysis, previous, storeVars>>

\* values given to the number helpers of the handlers: absent, null,
\* numbers, numeric and other strings, NaN, an infinity, an object
NotANumber == [t |-> "nan", n |-> 0]
Infinite == [t |-> "inf", n |-> 0]
AnObject == [t |-> "obj", n |-> 0]

RawInputs ==
    {Undef, JsNull, Num(0), Num(125), Num(-35), Num(1554), NumStr(1500),
     BadStr, NotANumber, Infinite, AnObject}

\* values given to toNumber of lib/longevity.ts, and its fallbacks
ValueInputs ==
    {UndefinedValue, NullValue, NumberValue(0), NumberValue(88),
     StringValue(<<"7", "2">>), StringValue(<<" ">>), StringValue(<<"n", "/", "a">>),
     ArrayValue(<<>>), ObjectValue(<<>>)}

Fallbacks == {0, 70}

\* safeNum(v)
ApplySafeNum ==
    /\ applied.function = "none"
    /\ \E v \in RawInputs : applied' = Call("safeNum", v, safeNum(v))
    /\ UNCHANGED <<request, pc, calls, outcome, resp, nResp, nutritionVars,
                   analysisVars, analysis, previous, storeVars>>

\* toNumber(v) of new.ts
ApplyToNumber ==
    /\ applied.function = "none"
    /\ \E v \in RawInputs : applied' = Call("new.ts toNumber", v, toNumber(v))
    /\ UNCHANGED <<request, pc, calls, outcome, resp, nResp, nutritionVars,
                   analysisVars, analysis, previous, storeVars>>

\* toNumber(value, fallback) of lib/longevity.ts
ApplyToFiniteNumber ==
    /\ applied.function = "none"
    /\ \E value \in ValueInputs, fallback \in Fallbacks :
          applied' = Call("lib/longevity.ts toNumber", <<value, fallback>>,
                          OutNum(toFiniteNumber(value, fallback)))
    /\ UNCHANGED <<request, pc, calls, outcome, resp, nResp, nutritionVars,
                   analysisVars, analysis, previous, storeVars>>

\* guardEdible(product)
ApplyGuardEdible ==
    /\ applied.function = "none"
    /\ \E product \in Products :
          applied' = Call("guardEdible", product, Verdicts[product])
    /\ UNCHANGED <<request, pc, calls, outcome, resp, nResp, nutritionVars,
                   analysisVars, analysis, previous, storeVars>>

\* the foods Stage 1 may list for Stage 2: weighed or not, cooked by any
\* method of the table, by none or by another, and a food told by count
PromptFoods ==
    {Food(<<"rice">>, w, Num(8), state, meth) :
         w \in {Num(1500), Num(2405)},
         state \in {"cooked", "raw"},
         meth \in {"grilled", "boiled", "baked", "fried", "", "steamed"}}
        \cup {Food(<<"rice">>, Undef, Num(8), state, "boiled") :
                  state \in {"cooked", "raw"}}
        \cup {Food(<<"eggs">>, Num(1000), Num(8), "cooked", "boiled")}

PromptFoodLists ==
    {<<f>> : f \in PromptFoods}
        \cup {<<f, g>> : f \in {FoodChicken, FoodEggs,
                                 Food(<<"eggs">>, Num(1000), Num(8),
                                      "cooked", "boiled")},
                          g \in PromptFoods}

\* new.ts, Stage 2: foodList and totalWeight of the foods of Stage 1
ApplyStage2Weights ==
    /\ applied.function = "none"
    /\ \E foods \in PromptFoodLists :
          LET s1 == [hasFoods |-> TRUE, foods |-> foods, summary |-> <<>>]
          IN applied' =
                 Call("new.ts Stage 2 weights", foods,
                      [foodList |->
                           foodListOf("new", NoClassification, s1, <<>>),
                       totalWeight |-> totalWeightOf("new", s1)])
    /\ UNCHANGED <<request, pc, calls, outcome, resp, nResp, nutritionVars,
                   analysisVars, analysis, previous, storeVars>>

\* hashes at the ends and in the middle of the 32-bit range
ExtremeHalves == {0, 1, 32767, 32768, 65534, 65535}

ExtremeHashes == [hi : ExtremeHalves, lo : ExtremeHalves]

\* the two score ranges of buildBodyAnalysis
BodyScoreRanges == {<<40, 93>>, <<35, 91>>}

\* scoreFromSeed on a seed with the given hash
ApplyScoreFromSeed ==
    /\ applied.function = "none"
    /\ \E hashed \in ExtremeHashes, range \in BodyScoreRanges :
          applied' = Call("scoreFromSeed", <<hashed, range[1], range[2]>>,
                          scoreFromHash(hashed, range[1], range[2]))
    /\ UNCHANGED <<request, pc, calls, outcome, resp, nResp, nutritionVars,
                   analysisVars, analysis, previous, storeVars>>

\* buildBodyAnalysis from its two scores on
ApplyBodyFatRange ==
    /\ applied.function = "none"
    /\ \E postureScore \in 40..93, muscleDefinitionScore \in 35..91 :
          applied' = Call("bodyFatRangeEstimate",
                          <<postureScore, muscleDefinitionScore>>,
                          bodyFatRangeEstimateOf(postureScore,
                                                 muscleDefinitionScore))
    /\ UNCHANGED <<request, pc, calls, outcome, resp, nResp, nutritionVars,
                   analysisVars, analysis, previous, storeVars>>

\* buildBodyAnalysis(input)
ApplyBuildBodyAnalysis ==
    /\ applied.function = "none"
    /\ \E input \in Arguments :
          applied' = Call("buildBodyAnalysis", input, BodyAnalyses[input])
    /\ UNCHANGED <<request, pc, calls, outcome, resp, nResp, nutritionVars,
                   analysisVars, analysis, previous, storeVars>>

\* what an item of the history may be: the assistant asking about the diet
\* or about allergies, the assistant stating something about cooking, the
\* user asking about a cuisine
HistoryItems ==
    {Item("assistant", <<"D", "i", "e", "t", "?">>),
     Item("assistant", <<"A", "l", "l", "e", "r", "g", "i", "e", "s", "?">>),
     Item("assistant", <<"I", " ", "c", "o", "o", "k", ".">>),
     Item("user", <<"A", "s", "i", "a", "n", "?">>)}

Histories ==
    {ArrayValue(items) :
        items \in UNION {[1..n -> HistoryItems] : n \in 0..MaxHistory}}

\* what the handler reads from each history: the fields asked about and
\* the two question counts
HistoryFacts ==
    [history \in Histories |->
        [askedFields |-> getAskedPreferenceFields(history),
         totalQuestionCount |-> getAssistantQuestionCount(history),
         allergyQuestionCount |-> getAllergyQuestionCount(history)]]

\* the handler from the body on
MealPlanGate(body) ==
    PlanDecision(body, HistoryFacts[body.history].askedFields,
                 HistoryFacts[body.history].totalQuestionCount,
                 HistoryFacts[body.history].allergyQuestionCount)

\* userAllergies: left out, blank, given
AllergyTexts == {UndefinedValue, StringValue(<<" ">>), StringValue(<<"n", "u", "t", "s">>)}

\* userPreferences and preferences, the older name of the field: both left
\* out; the allergies under the older name only; the allergies under the
\* older name behind a userPreferences without them; the allergies given
\* and the cultural foods blank; every field given
PreferencePairs ==
    {<<UndefinedValue, UndefinedValue>>,
     <<UndefinedValue, ObjectValue(<<Entry("allergies", StringValue(<<"n", "o", "n", "e">>))>>)>>,
     <<ObjectValue(<<Entry("eating_mode", StringValue(<<"v", "e", "g", "a", "n">>))>>),
       ObjectValue(<<Entry("allergies", StringValue(<<"n", "o", "n", "e">>))>>)>>,
     <<ObjectValue(<<Entry("allergies", StringValue(<<"n", "o", "n", "e">>)),
                     Entry("cultural_foods", StringValue(<<>>))>>),
       UndefinedValue>>,
     <<ObjectValue(<<Entry("allergies", StringValue(<<"n", "o", "n", "e">>)),
                     Entry("eating_mode", StringValue(<<"v", "e", "g", "a", "n">>)),
                     Entry("cooking_style", StringValue(<<"q", "u", "i", "c", "k">>)),
                     Entry("cultural_foods", StringValue(<<"a", "s", "i", "a", "n">>))>>),
       UndefinedValue>>}

\* the handler's derivation for one request body
ApplyMealPlanGate ==
    /\ applied.function = "none"
    /\ \E history \in Histories, userAllergies \in AllergyTexts,
          given \in PreferencePairs, mode \in {"meal_plan", "chat"} :
          LET body == [history |-> history, userAllergies |-> userAllergies,
                       userPreferences |-> given[1],
                       preferences |-> given[2], mode |-> mode]
          IN  applied' = Call("meal plan gate", body, MealPlanGate(body))
    /\ UNCHANGED <<request, pc, calls, outcome, resp, nResp, nutritionVars,
                   analysisVars, analysis, previous, storeVars>>

NextMealPlan == ApplyMealPlanGate

MealPlan == InitHelpers /\ [][NextMealPlan]_vars

NextHelpers ==
    \/ ApplyScoreFromSeed
    \/ ApplyBodyFatRange
    \/ ApplyBuildBodyAnalysis
    \/ ApplyStage2Weights
    \/ ApplyExtractJson
    \/ ExtractStringified
    \/ ApplySafeNum
    \/ ApplyToNumber
    \/ ApplyToFiniteNumber
    \/ ApplyGuardEdible

Helpers == InitHelpers /\ [][NextHelpers]_vars

(***************************************************************************)
(* Two requests of one user for one day. Both are past authentication and  *)
(* validation; each reads the health record and asks the vision model,     *)
(* then writes its field of users/{uid}/aiAnalysis/{dateKey}. The store    *)
(* applies the writes one at a time, in the order they reach it.           *)
(***************************************************************************)
\* the keys of the document
Key_oneWeek == <<"o", "n", "e", "W", "e", "e", "k">>
Key_oneMonth == <<"o", "n", "e", "M", "o", "n", "t", "h">>
Key_jawlineIndex == <<"j", "a", "w", "l", "i", "n", "e", "I", "n", "d", "e", "x">>
Key_skinClarityIndex == <<"s", "k", "i", "n", "C", "l", "a", "r", "i", "t", "y", "I", "n", "d", "e", "x">>
Key_faceFatEstimate == <<"f", "a", "c", "e", "F", "a", "t", "E", "s", "t", "i", "m", "a", "t", "e">>
Key_bodyFatRangeEstimate == <<"b", "o", "d", "y", "F", "a", "t", "R", "a", "n", "g", "e", "E", "s", "t", "i", "m", "a", "t", "e">>
Key_postureScore == <<"p", "o", "s", "t", "u", "r", "e", "S", "c", "o", "r", "e">>
Key_muscleDefinitionScore == <<"m", "u", "s", "c", "l", "e", "D", "e", "f", "i", "n", "i", "t", "i", "o", "n", "S", "c", "o", "r", "e">>
Key_exercisePlan == <<"e", "x", "e", "r", "c", "i", "s", "e", "P", "l", "a", "n">>
Key_faceAnalyze == <<"f", "a", "c", "e", "A", "n", "a", "l", "y", "z", "e">>
Key_bodyAnalyze == <<"b", "o", "d", "y", "A", "n", "a", "l", "y", "z", "e">>
Key_analyzedAt == <<"a", "n", "a", "l", "y", "z", "e", "d", "A", "t">>
Key_imageUrl == <<"i", "m", "a", "g", "e", "U", "r", "l">>
Key_today == <<"t", "o", "d", "a", "y">>
Key_history == <<"h", "i", "s", "t", "o", "r", "y">>
Key_source == <<"s", "o", "u", "r", "c", "e">>
Key_result == <<"r", "e", "s", "u", "l", "t">>

\* the keys of an object
Keys(value) == {value.entries[i].key : i \in DOMAIN value.entries}

\* DocumentReference.set(data, { merge: true }): the field mask of the write
\* is the paths of the leaves of data (a value that is not a map, and an
\* empty map); what is stored at a path of the mask is replaced, and
\* everything else the document holds stays
RECURSIVE setMerge(_, _)
RECURSIVE MergeEntries(_, _, _)
MergeEntries(entries, data, i) ==
    IF i > Len(data) THEN entries
    ELSE LET key == data[i].key
             held == Get(ObjectValue(entries), key)
         IN MergeEntries(Define(entries, key, setMerge(held, data[i].val)),
                         data, i + 1)

setMerge(held, data) ==
    IF held.type # "object" \/ data.type # "object" \/ data.entries = <<>>
    THEN data
    ELSE ObjectValue(MergeEntries(held.entries, data.entries, 1))

\* a string of a result, held whole
Text(s) == StringValue(<<s>>)

\* the exercisePlan of runVisionBodyAnalysis's result: the weeks and the
\* months are arrays of lines
ExercisePlanValue ==
    ObjectValue(<<Entry(Key_oneWeek, ArrayValue(<<Text("Mon: ...")>>)),
                  Entry(Key_oneMonth, ArrayValue(<<Text("Week 1: ...")>>))>>)

\* the result as the write carries it. buildBodyAnalysis returns
\* bodyFatRangeEstimate, postureScore, muscleDefinitionScore and notes;
\* runVisionBodyAnalysis returns these and exercisePlan. The two face
\* functions return the same fields (the scores stand for them here).
ResultValue(handler, v, analysed) ==
    IF handler = "face-analyze"
    THEN ObjectValue(<<Entry(Key_jawlineIndex, NumberValue(analysed.jawlineIndex)),
                       Entry(Key_skinClarityIndex,
                             NumberValue(analysed.skinClarityIndex)),
                       Entry(Key_faceFatEstimate, Text(analysed.faceFatEstimate))>>)
    ELSE ObjectValue(
             <<Entry(Key_bodyFatRangeEstimate, Text(analysed.bodyFatRangeEstimate)),
               Entry(Key_postureScore, NumberValue(analysed.postureScore)),
               Entry(Key_muscleDefinitionScore, NumberValue(analysed.muscleDefinitionScore))>>
             \o (IF v.ok THEN <<Entry(Key_exercisePlan, ExercisePlanValue)>>
                 ELSE <<>>))

\* the field of the document a handler writes
AnalysisField(handler) ==
    IF handler = "face-analyze" THEN Key_faceAnalyze ELSE Key_bodyAnalyze

AnalysisFields == {AnalysisField(h) : h \in AnalysisHandlers}

\* the data of persistFaceAnalysis's and persistBodyAnalysis's set(...):
\* analyzedAt (the store's time of the write) and the handler's field
WriteData(handler, body, v, analysed, time) ==
    ObjectValue(
        <<Entry(Key_analyzedAt, NumberValue(time)),
          Entry(AnalysisField(handler),
                ObjectValue(<<Entry(Key_imageUrl, body.imageUrl),
                              Entry(Key_today, body.today),
                              Entry(Key_history, body.history),
                              Entry(Key_source, Text(SourceTag(v))),
                              Entry(Key_result,
                                    ResultValue(handler, v, analysed))>>))>>)

\* the bodies of the two requests: today carries the same date, with or
\* without computed
SameDayBodies ==
    {Body(StringValue(url), today, ArrayValue(<<>>)) :
         url \in ImageUrls,
         today \in {ObjectValue(<<DateEntry, Computed(80)>>),
                    ObjectValue(<<DateEntry>>)}}

\* what the vision call of a request comes to: no result, a result, a throw
SameDayVisions ==
    {Throw, NotOk} \cup {Message(RawJson(o)) : o \in VisionObjs}

RequestIds == {1, 2}

RequestAt(handler, body, at, v, analysed) ==
    [handler |-> handler, body |-> body, at |-> at, vision |-> v,
     result |-> analysed]

InitSameDay ==
    /\ variant = "same-day"
    /\ method = "POST"
    /\ hasKey = TRUE
    /\ description = <<>>
    /\ photoUrl = "none"
    /\ token = "bearer"
    /\ payload = GoodBody
    /\ pc = "start"
    /\ calls = <<>>
    /\ outcome = [c \in Calls \cup AnalysisCalls \cup BarcodeCalls |-> "none"]
    /\ stage0 = NoClassification
    /\ stage1 = NoStage1
    /\ stage2Prompt = NoPrompt
    /\ nutrition = AbsentNutrition
    /\ resp = NoResponse
    /\ nResp = 0
    /\ healthRecord = NullValue
    /\ vision = NoVision
    /\ result = NoResult
    /\ stored = NotStored
    /\ analysis = NoAnalysis
    /\ previous = NoAnalysis
    /\ applied = NoAnalysis
    /\ requests \in [RequestIds ->
                        {RequestAt(h, b, "vision", NoVision, NoResult) :
                             h \in AnalysisHandlers, b \in SameDayBodies}]
    /\ dayDocument = NullValue
    /\ writes = <<>>

\* a request from the read of the health record (none is stored) to the
\* write it issues: result = vision ?? build...Analysis(...). A rejected
\* vision call ends face-analyze with 500 and nothing written, and takes
\* body-analyze to its catch block, which writes the placeholder
Analyse(r) ==
    /\ requests[r].at = "vision"
    /\ \E reply \in SameDayVisions :
          LET this == requests[r]
              v == IF reply.net = "throw" THEN NoVision
                   ELSE VisionOf(this.handler, reply)
              analysed == IF v.ok THEN v.result
                          ELSE PlaceholderOf(this.handler, this.body,
                                             NullValue)
          IN requests' =
                 [requests EXCEPT ![r] =
                     IF reply.net = "throw" /\ this.handler = "face-analyze"
                     THEN RequestAt(this.handler, this.body, "done",
                                    NoVision, NoResult)
                     ELSE RequestAt(this.handler, this.body, "persist",
                                    v, analysed)]
    /\ UNCHANGED <<request, pc, calls, outcome, resp, nResp, nutritionVars,
                   analysisVars, analysis, previous, applied, dayDocument,
                   writes>>

\* the store applies the write of a request, or the write fails; either
\* way the handler answers
Persist(r) ==
    /\ requests[r].at = "persist"
    /\ \E written \in BOOLEAN :
          LET this == requests[r]
              data == WriteData(this.handler, this.body, this.vision,
                                this.result, Len(writes) + 1)
          IN /\ dayDocument' = IF written THEN setMerge(dayDocument, data)
                               ELSE dayDocument
             /\ writes' = IF written
                          THEN Append(writes,
                                      [request |-> r,
                                       handler |-> this.handler,
                                       data |-> data])
                          ELSE writes
    /\ requests' = [requests EXCEPT ![r].at = "done"]
    /\ UNCHANGED <<request, pc, calls, outcome, resp, nResp, nutritionVars,
                   analysisVars, analysis, previous, applied>>

NextSameDay ==
    \/ \E r \in RequestIds : Analyse(r)
    \/ \E r \in RequestIds : Persist(r)

SameDay == InitSameDay /\ [][NextSameDay]_vars

(***************************************************************************)
(* api/longevity/body-analyze.ts: the barcode handler. The product is      *)
(* looked up at OpenFoodFacts, and asked of the LLM when OpenFoodFacts has *)
(* none; guardEdible decides whether its nutrition is returned. Of the     *)
(* nutrition record the name and the source are kept here.                 *)
(***************************************************************************)
BarcodeNames ==
    {<<"P", "r", "e", "m", "i", "e", "r", " ", "P", "r", "o", "t", "e", "i", "n", " ", "B", "a", "r">>,
     <<"S", "h", "a", "m", "p", "o", "o">>,
     <<"O", "a", "t", " ", "M", "i", "l", "k">>,
     <<"D", "o", "g", " ", "S", "h", "a", "m", "p", "o", "o">>,
     <<"W", "h", "e", "y", " ", "I", "s", "o", "l", "a", "t", "e">>}

\* offData.product: product_name, serving_size, categories_tags and
\* nutriments (no brand, ingredients or labels)
OffProducts ==
    [name : BarcodeNames, categoriesTags : ProductTags,
     servingSize : ServingSizes, nutriments : Nutriments]

\* what guardEdible is asked about a product of OpenFoodFacts: categories is
\* `${categoriesText} ${ingredients} ${labels}`
OffGuardInput(p) ==
    [name |-> p.name, brand |-> <<>>,
     categories |-> Join(p.categoriesTags, <<",", " ">>) \o <<" ", " ">>,
     categoriesTags |-> p.categoriesTags, servingSize |-> p.servingSize,
     nutriments |-> p.nutriments]

\* the objects the LLM's reply may parse to: a product, as guardEdible is
\* asked about it, or the refusal the prompt asks for
GptProducts ==
    [name : BarcodeNames, brand : {<<>>}, categories : {<<>>},
     categoriesTags : {<<>>}, servingSize : ServingSizes,
     nutriments : Nutriments]

\* the replies of OpenFoodFacts: the fetch rejects, a non-2xx status, a
\* body without product, a product
OffReplies ==
    {[net |-> "throw"], [net |-> "notok"], [net |-> "noproduct"]}
        \cup {[net |-> "product", product |-> p] : p \in OffProducts}

\* the replies of the LLM: the fetch rejects, no message or a text that
\* does not parse, {"error":"non_food",...}, a product
GptReplies ==
    {[net |-> "throw"], [net |-> "unparsable"], [net |-> "non_food"]}
        \cup {[net |-> "product", product |-> p] : p \in GptProducts}

BarcodeError(status, error) ==
    [status |-> status, via |-> "barcode", error |-> error,
     name |-> <<>>, source |-> ""]

\* res.status(200).json(buildCompleteNutrition(...))
BarcodeNutrition(name, source) ==
    [status |-> 200, via |-> "barcode", error |-> "",
     name |-> name, source |-> source]

\* the barcode handler from its entry to the OpenFoodFacts call
BarcodeStart ==
    /\ pc = "start"
    /\ variant = "barcode"
    /\ IF method \notin {"GET", "POST"}
       THEN Send(BarcodeError(405, "Method not allowed"))
       ELSE IF payload.barcode = <<>>
       THEN Send(BarcodeError(400, "Missing barcode parameter"))
       ELSE IssueCall("off")
    /\ UNCHANGED <<request, outcome, nutritionVars, analysisVars, libraryVars>>

\* the LLM is asked, if there is a key
ToGpt ==
    IF ~hasKey THEN Send(BarcodeError(500, "Missing OpenAI API key"))
    ELSE IssueCall("gpt")

\* guardEdible is asked, and its verdict decides the response
Guarded(input, verdict, source) ==
    /\ applied' = Call("guardEdible", input, verdict)
    /\ IF ~verdict.isEdible THEN Send(BarcodeError(200, "non_food"))
       ELSE Send(BarcodeNutrition(input.name, source))

\* a variant that asks the LLM about a product the guard rejected
OffReplyRejectedToGpt ==
    /\ pc = "off"
    /\ \E reply \in OffReplies :
          /\ Returned("off", reply.net)
          /\ CASE reply.net = "throw" ->
                    /\ Send(BarcodeError(500, "Server error"))
                    /\ UNCHANGED applied
               [] reply.net = "product" ->
                    LET input == OffGuardInput(reply.product)
                        verdict == guardEdible(input)
                    IN /\ applied' = Call("guardEdible", input, verdict)
                       /\ IF ~verdict.isEdible THEN ToGpt
                          ELSE Send(BarcodeNutrition(input.name,
                                                     "OpenFoodFacts"))
               [] OTHER -> ToGpt /\ UNCHANGED applied
    /\ UNCHANGED <<request, nutritionVars, analysisVars, analysis, previous,
                   storeVars>>

\* the reply of OpenFoodFacts: its product goes through the guard; without
\* a product the LLM is asked; a rejected fetch ends in the catch block
OffReply ==
    /\ pc = "off"
    /\ \E reply \in OffReplies :
          /\ Returned("off", reply.net)
          /\ CASE reply.net = "throw" ->
                    /\ Send(BarcodeError(500, "Server error"))
                    /\ UNCHANGED applied
               [] reply.net = "product" ->
                    Guarded(OffGuardInput(reply.product),
                            guardEdible(OffGuardInput(reply.product)),
                            "OpenFoodFacts")
               [] OTHER -> ToGpt /\ UNCHANGED applied
    /\ UNCHANGED <<request, nutritionVars, analysisVars, analysis, previous,
                   storeVars>>

\* the reply of the LLM: a refusal is passed on, a text that does not parse
\* is reported, a product goes through the guard
GptReply ==
    /\ pc = "gpt"
    /\ \E reply \in GptReplies :
          /\ Returned("gpt", reply.net)
          /\ CASE reply.net = "throw" ->
                    /\ Send(BarcodeError(500, "Server error"))
                    /\ UNCHANGED applied
               [] reply.net = "non_food" ->
                    /\ Send(BarcodeError(200, "non_food"))
                    /\ UNCHANGED applied
               [] reply.net = "unparsable" ->
                    /\ Send(BarcodeError(200, "parse_error"))
                    /\ UNCHANGED applied
               [] OTHER ->
                    Guarded(reply.product, Verdicts[reply.product], "GPT-4o")
    /\ UNCHANGED <<request, nutritionVars, analysisVars, analysis, previous,
                   storeVars>>

InitBarcode ==
    /\ variant = "barcode"
    /\ method \in {"GET", "POST", "PUT"}
    /\ hasKey \in BOOLEAN
    /\ description = <<>>
    /\ photoUrl = "none"
    /\ token = "none"
    /\ payload \in {[barcode |-> <<>>], [barcode |-> <<"0", "1", "2">>]}
    /\ Idle
    /\ analysis = NoAnalysis
    /\ previous = NoAnalysis

NextBarcode ==
    \/ BarcodeStart
    \/ OffReply
    \/ GptReply

Barcode == InitBarcode /\ [][NextBarcode]_vars

(***************************************************************************)
(* Properties.                                                             *)
(***************************************************************************)
\* the calls issued after the first call named c
RECURSIVE CallsAfter(_, _)
CallsAfter(cs, c) ==
    IF cs = <<>> THEN <<>>
    ELSE IF Head(cs) = c THEN Tail(cs)
    ELSE CallsAfter(Tail(cs), c)

Issued(c) == \E i \in DOMAIN calls : calls[i] = c

\* the call came back without a usable value: no message, or a message
\* whose text does not parse
NoValue(c) == outcome[c] \in {"nochoices", "unparsable"}

\* C1: when the classification's kind is "branded" or "single_food", the
\* only LLM calls of the request are Stage 0 and the bypass call, and a
\* response, if one is sent, is the bypass path's (its 200 or its 500).
C1_BypassSkipsStages ==
    stage0.kind \in {"branded", "single_food"} =>
        /\ \A i \in DOMAIN calls : calls[i] \in {"stage0", "bypass"}
        /\ pc = "done" => resp.via \in {"bypass", "bypass_error"}

C1_Witness ==
    /\ pc = "done"
    /\ stage0.kind = "single_food"
    /\ calls = <<"stage0", "bypass">>
    /\ resp.status = 200

\* C2: every 200 response carries all 19 nutrition fields, each one a
\* finite number (never null, never absent).
C2_EveryFieldFinite ==
    variant \in Variants /\ resp.status = 200 =>
        \A f \in NutritionFields : resp.nut[f].t = "num"

\* C3: when the bypass call or the Stage 2 call yields nothing that parses,
\* the handler has answered 500 with an error body and no nutrition field,
\* exactly once, and that call is the last LLM call of the request.
C3_FailClosed ==
    \A c \in {"bypass", "stage2"} :
        NoValue(c) =>
            /\ pc = "done"
            /\ nResp = 1
            /\ resp.status = 500
            /\ resp.error # ""
            /\ resp.nut = AbsentNutrition
            /\ calls[Len(calls)] = c

C3_Witness ==
    /\ outcome["stage2"] = "unparsable"
    /\ resp.status = 500
    /\ resp.error = "Failed to parse nutrition JSON"

\* C4: when the Stage 0 call or the Stage 1 call fails (the fetch rejects, or
\* a reply without a message comes back), the stage's fallback value is
\* used and the next call is issued.
C4_UpstreamFailureDegrades ==
    /\ outcome["stage0"] \in {"throw", "nochoices"} =>
          /\ stage0 = ClassificationOf(JNull, description)
          /\ CallsAfter(calls, "stage0") # <<>>
    /\ outcome["stage1"] \in {"throw", "nochoices"} =>
          /\ stage1 = Stage1Of(JNull)
          /\ CallsAfter(calls, "stage1") # <<>>

\* the call issued right after the first call named c ("none": none was)
NextCall(c) ==
    IF CallsAfter(calls, c) = <<>> THEN "none" ELSE Head(CallsAfter(calls, c))

\* Stage 1 has come back and the pizza check's text, formed from the
\* description, Stage 1's summary and its food names, contains "pizza"
\* (chat.ts cannot form the text of a Stage 1 value without a foods array)
PizzaText ==
    /\ outcome["stage1"] \in {"parsed", "unparsable", "nochoices"}
    /\ ~(variant = "chat" /\ ~stage1.hasFoods)
    /\ PizzaDetected(stage1, description)

\* the pizza subroutine failed: its call threw or brought nothing that parses
PizzaScriptFailed == outcome["pizza"] \in {"throw", "nochoices", "unparsable"}

\* the nutrition fields of the final response, from Stage 2's record
Stage2Nutrition == IF variant = "new" THEN RoundedForUI(nutrition) ELSE nutrition

\* Stage 2 begins: its call is issued right after call c with the prompt
\* built from Stage 1's value, or (new.ts, a weight that is a string)
\* building the prompt throws
Stage2Begins(c) ==
    \/ /\ NextCall(c) = "stage2"
       /\ stage2Prompt.foodList =
              foodListOf(variant, stage0, stage1, description)
       /\ stage2Prompt.totalWeight = totalWeightOf(variant, stage1)
    \/ /\ FoodListThrows(variant, stage1)
       /\ pc = "crashed"
       /\ NextCall(c) = "none"

C6_Stage3FailureAbsorbed ==
    outcome["stage3"] \in {"throw", "nochoices", "unparsable"} =>
        /\ pc = "done"
        /\ resp.status = 200
        /\ resp.nut = Stage2Nutrition
        /\ resp.ai_summary = stage1.summary

\* C7: a Stage 1.5 call is issued only in new.ts and part_002, only for a
\* request without description, and only when Stage 1 listed exactly one
\* food.
C7_Stage15OnlyForSingleFood ==
    Issued("stage15") =>
        /\ variant \in {"new", "part_002"}
        /\ description = <<>>
        /\ stage1.hasFoods
        /\ Len(stage1.foods) = 1
        /\ NextCall("stage1") = "stage15"

C7_Witness ==
    /\ pc = "stage15"
    /\ description = <<>>
    /\ Len(stage1.foods) = 1

\* C8: when the Stage 1.5 call brings nothing that parses, no response is
\* sent before a further step: the pizza call comes next if the text
\* contains "pizza", otherwise Stage 2 begins; a response sent later is the
\* pizza subroutine's or Stage 2's, never one for the Stage 1.5 failure.
C8_Stage15FallsThrough ==
    NoValue("stage15") =>
        /\ IF PizzaText THEN NextCall("stage15") = "pizza"
           ELSE Stage2Begins("stage15")
        /\ nResp > 0 => CallsAfter(calls, "stage15") # <<>>
        /\ pc = "done" => resp.via \in {"pizza", "final", "stage2_error"}

C8_Witness ==
    /\ outcome["stage15"] = "unparsable"
    /\ calls = <<"stage0", "stage1", "stage15", "stage2">>
    /\ pc = "done"
    /\ resp.status = 200

\* Stage 1's value is the fallback { foods: [], summary: "" }
Stage1Fallback ==
    /\ stage1.hasFoods
    /\ stage1.foods = <<>>
    /\ stage1.summary = <<>>

\* C9 as stated: when Stage 1 brings nothing that parses, its value is the
\* fallback, Stage 2 is called once the pizza call (if any) is over, with
\* the description or "(no foods detected)" as food list, and a response
\* sent is not an error for Stage 1.
C9_Stage2AlwaysReached ==
    NoValue("stage1") =>
        /\ Stage1Fallback
        /\ pc # "pizza" => Issued("stage2")
        /\ Issued("stage2") =>
              stage2Prompt.foodList \in {description, NoFoodsDetected}

\* C9 amended: when Stage 1 brings nothing that parses, its value is the
\* fallback and no Stage 1.5 call is made; Stage 2 is called next with the
\* description or "(no foods detected)" as food list, unless the
\* description contains "pizza": then the pizza call comes next, and
\* Stage 2 follows only if the subroutine fails, its 200 answering the
\* request otherwise; no response is an error for Stage 1.
C9_Stage2UnlessPizza ==
    NoValue("stage1") =>
        /\ Stage1Fallback
        /\ ~Issued("stage15")
        /\ IF Includes(ToLowerCase(description), "pizza")
           THEN /\ NextCall("stage1") = "pizza"
                /\ PizzaScriptFailed => NextCall("pizza") = "stage2"
                /\ outcome["pizza"] = "parsed" =>
                      /\ pc = "done"
                      /\ resp.status = 200
                      /\ resp.via = "pizza"
                      /\ ~Issued("stage2")
           ELSE NextCall("stage1") = "stage2"
        /\ Issued("stage2") =>
              /\ stage2Prompt.foodList =
                    IF description # <<>> \/ variant = "chat" THEN description
                    ELSE NoFoodsDetected
              /\ stage2Prompt.totalWeight = <<>>
        /\ pc = "done" => resp.via \in {"pizza", "final", "stage2_error"}

C9_Witness ==
    /\ outcome["stage1"] = "unparsable"
    /\ description = <<>>
    /\ stage2Prompt.foodList = NoFoodsDetected
    /\ pc = "done"
    /\ resp.status = 200

\* C10: when the classifier's message does not parse, the classification is
\* { mixed_meal, description, description }, no bypass call is made and the
\* Stage 1 call comes next.
C10_ClassifierFallback ==
    outcome["stage0"] = "unparsable" =>
        /\ stage0 = [kind |-> "mixed_meal", normalized_name |-> description,
                     quantity_description |-> description]
        /\ ~Issued("bypass")
        /\ NextCall("stage0") = "stage1"

C10_Witness ==
    /\ outcome["stage0"] = "unparsable"
    /\ stage0.normalized_name = <<"2", "eggs">>
    /\ Issued("stage2")

\* the handler has ended: it has answered, or its promise has rejected
Ended == pc \in {"done", "crashed"}

\* the answers given before any LLM call: 405, missing key, invalid photoUrl
EntryRejections == {"method", "key", "photo"}

\* C11 as stated: a nutrition request issues between 1 and 5 LLM calls.
C11_BetweenOneAndFive ==
    variant \in Variants /\ Ended => Len(calls) >= 1 /\ Len(calls) <= 5

\* C11: a nutrition request never issues more than 6 LLM calls (Stage 0,
\* Stage 1, Stage 1.5, pizza, Stage 2, Stage 3), and it ends without any
\* call only when it is rejected at entry (405, missing key, invalid
\* photoUrl).
C11_AtMostSixCalls ==
    variant \in Variants =>
        /\ Len(calls) <= 6
        /\ Ended /\ Len(calls) = 0 => resp.via \in EntryRejections

C11_Witness ==
    /\ variant \in {"new", "part_002"}
    /\ pc = "done"
    /\ calls = <<"stage0", "stage1", "stage15", "pizza", "stage2", "stage3">>

\* the place of each call in the pipeline (the bypass call takes Stage 1's)
Rank(c) ==
    CASE c = "stage0" -> 0
      [] c \in {"bypass", "stage1"} -> 1
      [] c = "stage15" -> 2
      [] c = "pizza" -> 3
      [] c = "stage2" -> 4
      [] c = "stage3" -> 5

\* C12: the LLM calls of one request are issued in the order Stage 0,
\* Stage 1, Stage 1.5, pizza, Stage 2, Stage 3, each at most once, and a
\* call is issued only after every earlier call has come back: at most the
\* last one is in flight.
C12_CallsSequential ==
    variant \in Variants =>
        /\ \A i \in 1..(Len(calls) - 1) :
              /\ Rank(calls[i]) < Rank(calls[i + 1])
              /\ outcome[calls[i]] # "none"
        /\ \A c \in Calls : outcome[c] = "none" /\ Issued(c) => pc = c

C12_Witness ==
    /\ pc = "stage3"
    /\ outcome["stage3"] = "none"
    /\ Len(calls) = 6
    /\ \A i \in 1..5 : outcome[calls[i]] # "none"

\* C13: when the write of the analysis document fails, the request is still
\* answered 200 with the analysis that was computed.
C13_PersistFailureSwallowed ==
    /\ variant \in AnalysisHandlers
    /\ outcome["persist"] = "throw" \/ outcome["fallback_persist"] = "throw"
    => /\ pc = "done"
       /\ resp.status = 200
       /\ resp.via = "analysis"
       /\ result # NoResult

\* C14: when the vision call is unavailable (no API key, a network error, a
\* non-2xx reply, an unparsable reply) and the document store works, the
\* request is answered 200 with the placeholder that buildFaceAnalysis or
\* buildBodyAnalysis produces.
C14_VisionFailureGivesPlaceholder ==
    /\ variant \in AnalysisHandlers
    /\ Ended
    /\ outcome["load"] = "ok"
    /\ outcome["persist"] # "throw"
    /\ ~hasKey \/ outcome["vision"] \in {"throw", "notok", "unparsable"}
    => /\ resp.status = 200
       /\ result = PlaceholderOf(variant, payload, healthRecord)

RECURSIVE SameUpToKeyOrder(_, _)
SameUpToKeyOrder(a, b) ==
    IF a.type # b.type THEN FALSE
    ELSE CASE a.type = "object" ->
                 /\ Len(a.entries) = Len(b.entries)
                 /\ \A i \in DOMAIN a.entries :
                       \E j \in DOMAIN b.entries :
                          /\ b.entries[j].key = a.entries[i].key
                          /\ SameUpToKeyOrder(a.entries[i].val,
                                              b.entries[j].val)
           [] a.type = "array" ->
                 /\ Len(a.items) = Len(b.items)
                 /\ \A i \in DOMAIN a.items :
                       SameUpToKeyOrder(a.items[i], b.items[i])
           [] OTHER -> a = b

SameArguments(x, y) ==
    /\ x.uid = y.uid
    /\ x.imageUrl = y.imageUrl
    /\ SameUpToKeyOrder(x.today, y.today)
    /\ SameUpToKeyOrder(x.history, y.history)
    /\ SameUpToKeyOrder(x.healthRecord, y.healthRecord)

\* two calls of the same function have been made
TwoCalls(function) ==
    analysis.function = function /\ previous.function = function

\* C16: two calls of buildFaceAnalysis, or of buildBodyAnalysis, whose
\* arguments are equal up to the insertion order of object keys return
\* identical results.
C16_KeyOrderIndependent ==
    \A function \in {"buildFaceAnalysis", "buildBodyAnalysis"} :
        TwoCalls(function) /\ SameArguments(analysis.input, previous.input)
            => analysis.output = previous.output

\* C17: in a result of buildFaceAnalysis, with composite the rounded mean
\* of the returned jawlineIndex and skinClarityIndex, faceFatEstimate is
\* "low" exactly when composite >= 72, "medium" exactly when
\* 52 <= composite < 72, and "high" exactly when composite < 52.
C17_FaceFatThresholds ==
    analysis.function = "buildFaceAnalysis" =>
        LET composite == (analysis.output.jawlineIndex
                          + analysis.output.skinClarityIndex + 1) \div 2
            estimate == analysis.output.faceFatEstimate
        IN /\ estimate = "low" <=> composite >= 72
           /\ estimate = "medium" <=> composite >= 52 /\ composite < 72
           /\ estimate = "high" <=> composite < 52

C17_Witness ==
    /\ analysis.function = "buildFaceAnalysis"
    /\ analysis.output.jawlineIndex + analysis.output.skinClarityIndex = 143
    /\ analysis.output.faceFatEstimate = "low"

\* the intensity band of a health score
Band(healthScore) ==
    IF healthScore >= 75 THEN "75 and above"
    ELSE IF healthScore >= 55 THEN "55 to 74"
    ELSE "below 55"

\* the two results agree on faceFatEstimate and on the two threshold tests
SamePlanKeys(a, b) ==
    /\ a.faceFatEstimate = b.faceFatEstimate
    /\ (a.jawlineIndex < 60) = (b.jawlineIndex < 60)
    /\ (a.skinClarityIndex < 60) = (b.skinClarityIndex < 60)

\* C18 as stated: two results of buildFaceAnalysis that agree on
\* faceFatEstimate, on jawlineIndex < 60 and on skinClarityIndex < 60 carry
\* the same exercise plan.
C18_PlanFromThreeKeys ==
    TwoCalls("buildFaceAnalysis")
        /\ SamePlanKeys(analysis.output, previous.output)
        => analysis.output.exercisePlan = previous.output.exercisePlan

\* C18: two results of buildFaceAnalysis that agree on faceFatEstimate, on
\* jawlineIndex < 60, on skinClarityIndex < 60 and on the band of the
\* health score (75 and above, 55 to 74, below 55) carry the same exercise
\* plan.
C18_PlanFromKeysAndBand ==
    TwoCalls("buildFaceAnalysis")
        /\ SamePlanKeys(analysis.output, previous.output)
        /\ Band(healthScoreOf(analysis.input))
              = Band(healthScoreOf(previous.input))
        => analysis.output.exercisePlan = previous.output.exercisePlan

C18_Witness ==
    /\ TwoCalls("buildFaceAnalysis")
    /\ SamePlanKeys(analysis.output, previous.output)
    /\ healthScoreOf(analysis.input) = 60
    /\ healthScoreOf(previous.input) = 72
    /\ analysis.output.jawlineIndex # previous.output.jawlineIndex
    /\ analysis.output.exercisePlan = previous.output.exercisePlan

\* C19: a request whose method is not POST, to a nutrition handler or to
\* face-analyze or body-analyze, makes no outbound call at any time, and the
\* one response it gets is 405.
C19_NonPostIs405WithoutCalls ==
    method # "POST" =>
        /\ calls = <<>>
        /\ pc \in {"start", "done"}
        /\ pc = "done" => resp.status = 405 /\ nResp = 1

C19_Witness ==
    /\ method # "POST"
    /\ variant = "body-analyze"
    /\ token = "bearer"
    /\ hasKey
    /\ pc = "done"
    /\ resp.status = 405
    /\ calls = <<>>

\* the bodies of the analysis handlers that parse to null
InvalidBodies == Payloads \ {GoodBody}

\* a POST request with an invalid shape: an unacceptable photoUrl to new.ts,
\* or a missing or ill-typed imageUrl, today or history to an analysis
\* handler
InvalidShape ==
    /\ method = "POST"
    /\ \/ variant = "new" /\ photoUrl = "bad"
       \/ variant \in AnalysisHandlers /\ payload \in InvalidBodies

\* C20 as stated: a request with an invalid shape is answered with 400, and
\* no network call has been made for it before that answer.
C20_InvalidShapeIs400BeforeAnyCall ==
    InvalidShape /\ Ended => resp.status = 400 /\ calls = <<>>

\* C20: a POST request with an invalid shape never reaches the document
\* store or the LLM and is never answered 200. new.ts makes no call at all
\* and answers 400 when its API key is configured, 500 when it is not.
\* face-analyze and body-analyze authenticate first: without a bearer token
\* they answer 401 with no call; with one they call the identity provider
\* once and answer 401 when the token is refused, 400 when it is accepted.
C20_InvalidShapeStopsAfterAuth ==
    InvalidShape =>
        /\ calls \in {<<>>, <<"auth">>}
        /\ pc \in {"start", "auth", "done"}
        /\ variant = "new" => calls = <<>>
        /\ pc = "done" /\ variant = "new" =>
              resp.status = (IF hasKey THEN 400 ELSE 500)
        /\ pc = "done" /\ variant \in AnalysisHandlers =>
              IF token = "none" THEN resp.status = 401 /\ calls = <<>>
              ELSE /\ calls = <<"auth">>
                   /\ resp.status = (IF outcome["auth"] = "ok" THEN 400 ELSE 401)

C20_Witness ==
    /\ InvalidShape
    /\ variant = "face-analyze"
    /\ payload.today.type = "array"
    /\ pc = "done"
    /\ resp.status = 400
    /\ calls = <<"auth">>

\* C21: a nutrition request on which the Stage 0, Stage 1, bypass or Stage 2
\* call threw ends with a 500 response, and every request that has ended
\* has received exactly one response.
C21_UnabsorbedFailureIs500 ==
    variant \in Variants /\ Ended =>
        /\ nResp = 1
        /\ (\E c \in {"stage0", "stage1", "bypass", "stage2"} :
                outcome[c] = "throw") => resp.status = 500

\* C22: in every item of the ai_foods of a 200 response of new.ts, weight_g
\* is null if and only if unit is "piece".
C22_NullWeightIffPiece ==
    variant = "new" /\ pc = "done" /\ resp.status = 200 =>
        \A i \in DOMAIN resp.ai_foods :
            resp.ai_foods[i].weight_g = OutNull
                <=> resp.ai_foods[i].unit = "piece"

\* a food name that says chicken, does not say breast, and is not described
\* as bone-in or skin-on
PlainChicken(name) ==
    /\ Includes(ToLowerCase(name), "chicken")
    /\ ~Includes(ToLowerCase(name), "breast")
    /\ ~Includes(ToLowerCase(name), "bone-in")
    /\ ~Includes(ToLowerCase(name), "skin-on")

\* C23: in the final mixed-meal response of new.ts, a food of Stage 1 is
\* returned as "chicken breast", with its confidence raised by 0.1 and
\* capped at 1, exactly when its name says chicken, does not say breast and
\* is not described as bone-in or skin-on; every other food keeps its name
\* and the confidence it came with.
C23_ChickenRenamedUnlessBoneIn ==
    variant = "new" /\ pc = "done" /\ resp.via = "final" /\ resp.status = 200 =>
        \A i \in DOMAIN stage1.foods :
            LET food == stage1.foods[i]
                item == resp.ai_foods[i]
            IN IF PlainChicken(food.name)
               THEN /\ item.name = <<"chicken", "breast">>
                    /\ food.confidence.t = "num" =>
                          item.confidence
                              = OutNum(IF food.confidence.n + 1 < 10
                                       THEN food.confidence.n + 1 ELSE 10)
               ELSE /\ item.name = food.name
                    /\ food.confidence.t = "num" =>
                          item.confidence = food.confidence

\* the food lists an estimate may supply
SuppliedLists == {o.ai_foods : o \in {n \in NutritionObjs : n.hasAiFoods}}

\* foods names the items of a list the estimate supplied
FromSuppliedList(foods) ==
    \E list \in SuppliedLists :
        /\ Len(foods) = Len(list)
        /\ \A i \in DOMAIN list : foods[i].name = list[i].name

\* C24: the ai_foods of a bypass response, when the estimate supplied no
\* food list, is a single element named by the first non-empty of
\* quantity_description, normalized_name and the request's description, and
\* "Food" when all three are empty.
C24_BypassFoodNamePriority ==
    pc = "done" /\ resp.via = "bypass" /\ resp.status = 200
        /\ ~FromSuppliedList(resp.ai_foods) =>
        /\ Len(resp.ai_foods) = 1
        /\ resp.ai_foods[1].name
              = OrText(stage0.quantity_description,
                       OrText(stage0.normalized_name,
                              OrText(description, <<"Food">>)))

\* C25: extractJson returns, for every text, the value parsed from the
\* fenced block when there is a non-empty one that parses, else the value
\* parsed from the first { to the last } when that parses, else null; a
\* failing JSON.parse never leaves it.
C25_FenceThenBracesElseNull ==
    applied.function = "extractJson" =>
        LET fence == FenceCapture(applied.input)
            braces == BraceCapture(applied.input)
        IN applied.output =
              (IF fence.found /\ fence.capture # <<>>
                     /\ JSONparse(fence.capture).ok
               THEN JSONparse(fence.capture).val
               ELSE IF braces.found /\ JSONparse(braces.capture).ok
               THEN JSONparse(braces.capture).val
               ELSE NullValue)

C25_Witness ==
    /\ applied.function = "extractJson"
    /\ FenceCapture(applied.input).found
    /\ FenceCapture(applied.input).capture # <<>>
    /\ ~JSONparse(FenceCapture(applied.input).capture).ok
    /\ applied.output.type = "object"

\* C26: for every value v other than null that extractJson returned,
\* extractJson(JSON.stringify(v)) equals v.
C26_StringifiedRoundTrip ==
    applied.function = "extractJson(JSON.stringify)" =>
        applied.output = applied.input

\* C27: safeNum returns a finite integer for every input, and toNumber, of
\* lib/longevity.ts and of new.ts, returns a finite number for every input.
C27_HelpersReturnFiniteNumbers ==
    /\ applied.function = "safeNum" =>
          applied.output.t = "num" /\ applied.output.n % 10 = 0
    /\ applied.function \in {"new.ts toNumber", "lib/longevity.ts toNumber"} =>
          applied.output.t = "num"

\* the combined text of the product holds a cosmetic, household or chemical
\* keyword
HasBlockKeyword(product) ==
    \/ includesAny(HayOf(product), BLOCK_COSMETIC)
    \/ includesAny(HayOf(product), BLOCK_HOUSEHOLD)
    \/ includesAny(HayOf(product), BLOCK_CHEMICAL)

\* the combined text holds "protein bar", "energy bar", "nutrition bar" or
\* "builder bar", the two words together or with white space between them
HasBarPhrase(product) ==
    \E kind \in BarKinds : \E i \in 1..Len(HayOf(product)) :
        /\ MatchAt(HayOf(product), i, kind)
        /\ MatchAt(HayOf(product), SkipSpace(HayOf(product), i + Len(kind)),
                   <<"b", "a", "r">>)

\* the product has a block keyword, is no bar, and has no strong food
\* evidence
BlockedNonFood(product) ==
    /\ HasBlockKeyword(product)
    /\ ~isClearlyBar(HayOf(product))
    /\ ~hasStrongFoodEvidence(HayOf(product), product.nutriments,
                              product.categoriesTags, product.servingSize)

CosmeticRejection == Verdict(FALSE, "cosmetic/chemical/household product")

\* C28 as stated: guardEdible rejects with the reason
\* "cosmetic/chemical/household product" every product that has a block
\* keyword, is no bar and has no strong food evidence.
C28_BlockedNonFoodGetsCosmeticReason ==
    applied.function = "guardEdible" /\ BlockedNonFood(applied.input) =>
        applied.output = CosmeticRejection

\* C28: guardEdible rejects every product that has a block keyword, is no
\* bar and has no strong food evidence: as a "pet product" when the text
\* holds a pet keyword, else as a "reusable container" when
\* isReusableContainer says so, and with the reason
\* "cosmetic/chemical/household product" in every other case; the product
\* named "SPF 50 Sunscreen" alone is rejected with that last reason.
C28_BlockedNonFoodRejected ==
    applied.function = "guardEdible" =>
        /\ BlockedNonFood(applied.input) =>
              applied.output =
                  (IF includesAny(HayOf(applied.input), PET_NONFOOD)
                   THEN Verdict(FALSE, "pet product")
                   ELSE IF isReusableContainer(applied.input.name,
                                               applied.input.categories)
                   THEN Verdict(FALSE, "reusable container")
                   ELSE CosmeticRejection)
        /\ HayOf(applied.input)
              = <<"s", "p", "f", " ", "5", "0", " ", "s", "u", "n", "s", "c", "r", "e", "e", "n", " ", " ", " ">>
              /\ applied.input.categoriesTags = <<>>
              /\ applied.input.nutriments = <<>>
              => applied.output = CosmeticRejection

C28_Witness ==
    /\ applied.function = "guardEdible"
    /\ BlockedNonFood(applied.input)
    /\ includesAny(applied.input.name, BLOCK_HOUSEHOLD)
    /\ ~includesAny(applied.input.name, BLOCK_COSMETIC)
    /\ applied.output = CosmeticRejection

\* C29: guardEdible never gives the rejection
\* "cosmetic/chemical/household product" to a product whose combined text
\* holds a protein, energy, nutrition or builder bar phrase, whatever block
\* keywords it holds too; and the product named "Premier Protein Bar" with
\* the category tag "en:protein-bars" is edible.
C29_BarsEscapeCosmeticRejection ==
    applied.function = "guardEdible" =>
        /\ HasBarPhrase(applied.input) => applied.output # CosmeticRejection
        /\ applied.input.name
              = <<"P", "r", "e", "m", "i", "e", "r", " ", "P", "r", "o", "t", "e", "i", "n", " ", "B", "a", "r">>
              /\ applied.input.categoriesTags # <<>>
              => applied.output.isEdible

C29_Witness ==
    /\ applied.function = "guardEdible"
    /\ HasBarPhrase(applied.input)
    /\ HasBlockKeyword(applied.input)
    /\ applied.output.isEdible

\* the writes the store applied that carry a field
WritesOf(field) ==
    {i \in DOMAIN writes : AnalysisField(writes[i].handler) = field}

\* two values are the same, whatever the order of their keys
RECURSIVE SameValue(_, _)
SameValue(a, b) ==
    IF a.type = "object" /\ b.type = "object"
    THEN /\ Keys(a) = Keys(b)
         /\ \A key \in Keys(a) : SameValue(Get(a, key), Get(b, key))
    ELSE IF a.type = "array" /\ b.type = "array"
    THEN /\ Len(a.items) = Len(b.items)
         /\ \A i \in DOMAIN a.items : SameValue(a.items[i], b.items[i])
    ELSE a = b

\* C30: when two analysis requests of one user for one day run together,
\* the day's document holds, for each analysis field, the payload of the
\* write of that field the store applied last, and once a write was applied
\* the document and every analysis field written so far are there.
C30_LastWritePayloadHeld ==
    /\ writes # <<>> => dayDocument.type = "object"
    /\ \A field \in AnalysisFields :
          WritesOf(field) # {} =>
              /\ field \in Keys(dayDocument)
              /\ SameValue(Get(dayDocument, field),
                           Get(writes[Greatest(WritesOf(field))].data, field))

\* the yield factors as the specification lists them, in percent
YieldPercent(meth) ==
    CASE meth = "grilled" -> 75
      [] meth = "boiled" -> 80
      [] meth = "baked" -> 78
      [] meth = "fried" -> 70
      [] OTHER -> 75

\* the raw-equivalent weight of a food: w * 100 / pct tenths of a gram
\* (nothing for a food without a weight)
RawEquivalent(food) ==
    IF food.weight_g.t # "num" THEN [w |-> 0, pct |-> 100]
    ELSE IF food.cook_state # "cooked" THEN [w |-> food.weight_g.n, pct |-> 100]
    ELSE [w |-> food.weight_g.n, pct |-> YieldPercent(food.cook_method)]

\* the grams of a raw-equivalent weight to one decimal
GramsWord(g) == Fixed1((2 * g.w * 100 + g.pct) \div (2 * g.pct)) \o "g"

\* how new.ts describes a weighed food to Stage 2
DescribedByWeight(food) == <<GramsWord(RawEquivalent(food)), "raw">> \o food.name

Stage2Weighed == applied.function = "new.ts Stage 2 weights"

GuardReasons ==
    {"pet product", "reusable container",
     "cosmetic/chemical/household product", "supplement/powder evidence",
     "bar/snack evidence", "sufficient edible evidence",
     "insufficient edible evidence"}

\* one of the three early rejections applies to a product
EarlyRejected(product) ==
    LET hay == HayOf(product)
    IN \/ includesAny(hay, PET_NONFOOD)
       \/ isReusableContainer(product.name, product.categories)
       \/ NonFoodRejection(isClearlyBar(hay), Blocked(hay),
              hasStrongFoodEvidence(hay, product.nutriments,
                  product.categoriesTags, product.servingSize))

SupplementHint(product) == includesAny(HayOf(product), SUPPLEMENT_HINTS)

BarSnackEvidence(product) ==
    \/ hasBarWord(HayOf(product))
    \/ \E i \in DOMAIN product.categoriesTags :
          \/ Contains(product.categoriesTags[i], <<"e", "n", ":", "s", "n", "a", "c", "k", "-", "b", "a", "r", "s">>)
          \/ Contains(product.categoriesTags[i], <<"e", "n", ":", "p", "r", "o", "t", "e", "i", "n", "-", "b", "a", "r", "s">>)

\* the score meets a threshold
ScoreSuffices(product) ==
    \/ SupplementHint(product) /\ EdibleScore(product) >= 2
    \/ BarSnackEvidence(product) /\ EdibleScore(product) >= 2
    \/ EdibleScore(product) >= 3

GuardApplied == applied.function = "guardEdible"

\* C32: guardEdible returns isEdible true exactly when no early rejection
\* applied and the score meets a threshold (2 with a supplement hint, 2 with
\* bar/snack evidence, 3 otherwise), and its reason is one of seven.
C32_EdibleIffScoreSuffices ==
    GuardApplied =>
        /\ applied.output.isEdible
               <=> ~EarlyRejected(applied.input) /\ ScoreSuffices(applied.input)
        /\ applied.output.reason \in GuardReasons

\* a supplement was accepted with a score of 2
C32_Witness ==
    /\ GuardApplied
    /\ applied.output = Verdict(TRUE, "supplement/powder evidence")
    /\ EdibleScore(applied.input) = 2

\* the results the pizza script can return
PizzaResults == {PizzaResponse(variant, p) : p \in {PizzaFull, PizzaPartial}}

\* C33: when the pizza script succeeds, the handler answers 200 with the
\* script's result, and neither the Stage 2 call nor the Stage 3 call is
\* issued for the request.
C33_PizzaSuccessEndsRequest ==
    outcome["pizza"] = "parsed" =>
        /\ pc = "done"
        /\ nResp = 1
        /\ resp \in PizzaResults
        /\ ~Issued("stage2")
        /\ ~Issued("stage3")

\* the pizza script has succeeded, in new.ts after Stage 1.5
C33_Witness ==
    /\ variant = "new"
    /\ outcome["pizza"] = "parsed"
    /\ Issued("stage15")
    /\ resp.status = 200

\* C34: on the mixed-meal path, once Stage 2's reply has parsed, the request
\* ends with the 200 response of the path (the nutrition record with the
\* summary and the foods), whatever Stage 1 returned and whatever Stage 3
\* does.
C34_ParsedStage2Gives200 ==
    variant \in Variants /\ outcome["stage2"] = "parsed" /\ Ended =>
        /\ pc = "done"
        /\ nResp = 1
        /\ resp.status = 200
        /\ resp.via = "final"

\* C35: when the OpenAI key is missing, a nutrition handler answers a POST
\* with the 500 "Missing OpenAI key" error, and it has issued no LLM call.
C35_MissingKeyBeforeAnyCall ==
    variant \in Variants /\ method = "POST" /\ ~hasKey =>
        /\ calls = <<>>
        /\ Ended => /\ resp.status = 500
                    /\ resp.error = "Missing OpenAI key"

\* requireAuth has returned null: there was no bearer token, or
\* verifyIdToken refused it
AuthRefused ==
    /\ variant \in AnalysisHandlers
    /\ method = "POST"
    /\ \/ token = "none" /\ pc # "start"
       \/ outcome["auth"] = "throw"

\* C36: for a request without a valid token requireAuth sends one 401 and
\* returns null, and the handler then reads and writes no document, makes
\* no LLM call and sends no second response.
C36_RefusedTokenEndsWith401 ==
    AuthRefused =>
        /\ pc = "done"
        /\ nResp = 1
        /\ resp.status = 401
        /\ \A i \in DOMAIN calls : calls[i] = "auth"
        /\ stored = NotStored

\* verifyIdToken refused the token of a well-formed body-analyze request
C36_Witness ==
    /\ AuthRefused
    /\ variant = "body-analyze"
    /\ payload = GoodBody
    /\ hasKey
    /\ calls = <<"auth">>
    /\ resp.status = 401

\* the response carries nutrition data
NutritionAnswered ==
    variant = "barcode" /\ pc = "done" /\ resp.status = 200 /\ resp.error = ""

\* C37: the barcode handler answers 200 with nutrition data only after
\* guardEdible returned isEdible true for that product, in the OpenFoodFacts
\* branch and in the LLM branch; and when guardEdible rejects the product
\* OpenFoodFacts returned, the request ends with the error "non_food" and
\* the LLM is not asked.
C37_NutritionOnlyForEdible ==
    /\ NutritionAnswered =>
          /\ applied.function = "guardEdible"
          /\ applied.output.isEdible
          /\ applied.input.name = resp.name
          /\ resp.source = (IF Issued("gpt") THEN "GPT-4o" ELSE "OpenFoodFacts")
    /\ outcome["off"] = "product" /\ applied.function = "guardEdible"
          /\ ~applied.output.isEdible
         => /\ pc = "done"
            /\ resp.status = 200
            /\ resp.error = "non_food"
            /\ calls = <<"off">>

\* OpenFoodFacts returned a shampoo with a protein-bars tag, and the guard
\* rejected it
C37_Witness ==
    /\ variant = "barcode"
    /\ outcome["off"] = "product"
    /\ applied.function = "guardEdible"
    /\ ~applied.output.isEdible
    /\ applied.input.categoriesTags # <<>>
    /\ hasKey
    /\ resp.error = "non_food"

\* an authenticated, well-formed request to body-analyze
BodyRequestAccepted ==
    /\ variant = "body-analyze"
    /\ method = "POST"
    /\ outcome["auth"] = "ok"
    /\ ~InvalidPayload(payload)

\* C38: an authenticated, well-formed body-analyze request is answered 200
\* with a body analysis whatever the vision call and the document store do;
\* it is never answered 500 and never left without an answer.
C38_BodyAnalyzeAlways200 ==
    BodyRequestAccepted =>
        /\ pc # "crashed"
        /\ resp.status \in {0, 200}
        /\ pc = "done" =>
              /\ nResp = 1
              /\ resp.status = 200
              /\ resp.via = "analysis"
              /\ \/ result = PlaceholderOf(variant, payload, healthRecord)
                 \/ vision.ok /\ result = vision.result

\* the first read failed, the vision call threw, and the reads and writes
\* of the catch block failed as well
C38_Witness ==
    /\ BodyRequestAccepted
    /\ outcome["load"] = "throw"
    /\ outcome["vision"] = "throw"
    /\ outcome["fallback_load"] = "throw"
    /\ outcome["fallback_persist"] = "throw"
    /\ resp.status = 200

\* round((200 - postureScore - muscleDefinitionScore) / 2)
BodySignalOf(postureScore, muscleDefinitionScore) ==
    (200 - postureScore - muscleDefinitionScore + 1) \div 2

\* the body fat range the specification gives for a body signal
RangeOfSignal(bodySignal) ==
    IF bodySignal < 25 THEN "10-16%"
    ELSE IF bodySignal < 45 THEN "14-20%"
    ELSE "18-24%"

\* C39: buildBodyAnalysis gives a postureScore in [40, 93] and a
\* muscleDefinitionScore in [35, 91]; bodySignal is then at most 63, and
\* bodyFatRangeEstimate is "10-16%" below 25, "14-20%" from 25 to 44 and
\* "18-24%" from 45 on, never "22-30%".
C39_BodyFatNeverHighest ==
    /\ applied.function = "scoreFromSeed" =>
          /\ applied.output >= applied.input[2]
          /\ applied.output <= applied.input[3]
    /\ applied.function = "bodyFatRangeEstimate" =>
          /\ BodySignalOf(applied.input[1], applied.input[2]) <= 63
          /\ applied.output =
                 RangeOfSignal(BodySignalOf(applied.input[1], applied.input[2]))
    /\ applied.function = "buildBodyAnalysis" =>
          /\ applied.output.postureScore \in 40..93
          /\ applied.output.muscleDefinitionScore \in 35..91
          /\ applied.output.bodyFatRangeEstimate =
                 RangeOfSignal(BodySignalOf(applied.output.postureScore,
                                            applied.output.muscleDefinitionScore))

\* the lowest scores: the body signal is 63 and the range is "18-24%"
C39_Witness ==
    /\ applied.function = "bodyFatRangeEstimate"
    /\ applied.input = <<40, 35>>
    /\ applied.output = "18-24%"


\* neither userAllergies nor the allergies of either preferences object say
\* anything
NoAllergyInformation(body) ==
    /\ ~(body.userAllergies.type = "string"
         /\ \E i \in DOMAIN body.userAllergies.chars :
               body.userAllergies.chars[i] # " ")
    /\ \A given \in {body.userPreferences, body.preferences} :
          PreferenceOf(given, "allergies")
              \in {UndefinedValue, NullValue, StringValue(<<>>)}

StillMissing(output) ==
    {output.missingPreferencesFiltered[i] :
        i \in DOMAIN output.missingPreferencesFiltered}

\* C40: without any allergy information the final-plan system message is
\* never pushed and "allergies" stays among the missing fields, however many
\* questions were asked; a field other than allergies is no longer among
\* them once five questions not about allergies were asked or once the
\* assistant asked about the field.
C40_NoPlanWithoutAllergies ==
    applied.function = "meal plan gate" =>
        /\ NoAllergyInformation(applied.input) =>
              /\ ForcePlanMessage \notin applied.output.systemMessages
              /\ ~applied.output.shouldForcePlan
              /\ "allergies" \in StillMissing(applied.output)
        /\ \A field \in {"eating_mode", "cooking_style", "cultural_foods"} :
              \/ applied.output.nonAllergyQuestionCount >= 5
              \/ field \in applied.output.askedFields
              => field \notin StillMissing(applied.output)

\* a meal-plan request without allergy information after five questions not
\* about allergies: the plan is not forced and only allergies are missing
C40_Witness ==
    /\ applied.function = "meal plan gate"
    /\ applied.input.mode = "meal_plan"
    /\ NoAllergyInformation(applied.input)
    /\ applied.output.nonAllergyQuestionCount >= 5
    /\ applied.output.systemMessages = {}
    /\ applied.output.missingPreferencesFiltered = <<"allergies">>

====
